---------------------------- MODULE Spec2Model ----------------------------
(***************************************************************************)
(* Model of the JK-Tools-hub backend services:                             *)
(*   backend/services/image_resizer.py    (ImageResizer)                   *)
(*   backend/services/image_converter.py  (ImageConverter)                 *)
(*   backend/services/pdf_converter.py    (PDFConverter)                   *)
(* Every service call is one atomic action.  Python floats are IEEE-754    *)
(* binary64 values, modelled bit-exactly (53-bit significand, round to     *)
(* nearest, ties to even) on three limbs, because TLC integers are 32 bit. *)
(***************************************************************************)
EXTENDS Integers, Sequences, FiniteSets, TLC

VARIABLES
    rz,     \* ImageResizer.calculate_aspect_ratio_dimensions: the call and its result
    fs,     \* the file system: the directories and the files that exist
    call    \* the service call in hand: its arguments and, once made, its outcome

vars == <<rz, fs, call>>

(***************************************************************************)
(* IEEE-754 binary64, positive normal values only.  A value is             *)
(* [m |-> <<m2, m1, m0>>, e |-> e], standing for                           *)
(* (m2 * 2^36 + m1 * 2^18 + m0) * 2^e with the significand in              *)
(* [2^52, 2^53).                                                           *)
(***************************************************************************)
LimbBits == 18

Limb == 2 ^ LimbBits

TopBits == 17

\* number of bits of n >= 1
RECURSIVE BitLen(_)
BitLen(n) == IF n <= 1 THEN 1 ELSE 1 + BitLen(n \div 2)

\* <<m2, m1, m0>> + 1, and the significand's overflow to 2^53 renormalised
FIncrement(m, e) ==
    LET s0 == m[3] + 1
        s1 == m[2] + (s0 \div Limb)
        s2 == m[1] + (s1 \div Limb)
    IN  IF s2 = 2 ^ TopBits
        THEN [m |-> <<2 ^ (TopBits - 1), 0, 0>>, e |-> e + 1]
        ELSE [m |-> <<s2, s1 % Limb, s0 % Limb>>, e |-> e]

\* round to nearest, ties to even: cmp is the sign of (discarded part - one half ulp)
FRound(m, e, cmp) ==
    IF cmp > 0 \/ (cmp = 0 /\ m[3] % 2 = 1)
    THEN FIncrement(m, e)
    ELSE [m |-> m, e |-> e]

Sign(x) == IF x > 0 THEN 1 ELSE IF x < 0 THEN -1 ELSE 0

\* the float a / b of two ints (Python's int / int is correctly rounded)
FDivInts(a, b) ==
    LET la  == BitLen(a)
        lb  == BitLen(b)
        \* scale so that 1 <= num / den < 2
        k0  == la - lb
        n0  == IF k0 >= 0 THEN a ELSE a * 2 ^ (-k0)
        d0  == IF k0 >= 0 THEN b * 2 ^ k0 ELSE b
        low == n0 < d0
        num == IF low THEN 2 * n0 ELSE n0
        den == d0
        k   == IF low THEN k0 - 1 ELSE k0
        x2  == num * 2 ^ (TopBits - 1)
        m2  == x2 \div den
        r2  == x2 % den
        m1  == (r2 * Limb) \div den
        r1  == (r2 * Limb) % den
        m0  == (r1 * Limb) \div den
        r0  == (r1 * Limb) % den
    IN  FRound(<<m2, m1, m0>>, k - 52, Sign(2 * r0 - den))

\* three-limb helpers; the top limb may exceed its width in intermediate values
LCmp(x, y) ==
    IF x[1] # y[1] THEN Sign(x[1] - y[1])
    ELSE IF x[2] # y[2] THEN Sign(x[2] - y[2])
    ELSE Sign(x[3] - y[3])

LSub(x, y) ==
    LET d0 == x[3] - y[3]
        b0 == IF d0 < 0 THEN 1 ELSE 0
        d1 == x[2] - y[2] - b0
        b1 == IF d1 < 0 THEN 1 ELSE 0
    IN  <<x[1] - y[1] - b1, d1 + b1 * Limb, d0 + b0 * Limb>>

LDouble(x, bit) ==
    LET s0 == 2 * x[3] + bit
        s1 == 2 * x[2] + (s0 \div Limb)
    IN  <<2 * x[1] + (s1 \div Limb), s1 % Limb, s0 % Limb>>

\* quotient digits of the long division: 52 bits in four digits
DigitBits == 13

Digit == 2 ^ DigitBits

\* x * 2^DigitBits + digit
LShiftAdd(x, digit) ==
    LET s0 == x[3] * Digit + digit
        s1 == x[2] * Digit + (s0 \div Limb)
    IN  <<x[1] * Digit + (s1 \div Limb), s1 % Limb, s0 % Limb>>

\* x * n for 0 <= n < Digit
LMulSmall(x, n) ==
    LET s0 == x[3] * n
        s1 == x[2] * n + (s0 \div Limb)
    IN  <<x[1] * n + (s1 \div Limb), s1 % Limb, s0 % Limb>>

\* one step of the long division by d, 2^52 <= d < 2^53: qr[1] is the quotient so
\* far and qr[2] < d the remainder.  The digit is estimated from the top limbs,
\* which is the digit or one more
LDivDigit(qr, d) ==
    LET t     == LShiftAdd(qr[2], 0)
        est   == t[1] \div d[1]
        qhat  == IF est > Digit - 1 THEN Digit - 1 ELSE est
        digit == IF LCmp(LMulSmall(d, qhat), t) > 0 THEN qhat - 1 ELSE qhat
    IN  <<LShiftAdd(qr[1], digit), LSub(t, LMulSmall(d, digit))>>

\* the float n / x of an int n >= 1 (converted exactly) and a float x
FDivIntFloat(n, x) ==
    LET l   == BitLen(n)
        r0  == <<n * 2 ^ (TopBits - l), 0, 0>>            \* n * 2^(53 - l)
        low == LCmp(r0, x.m) < 0
        r   == IF low THEN LDouble(r0, 0) ELSE r0
        t   == IF low THEN 54 - l ELSE 53 - l             \* r = n * 2^t, x.m <= r < 2 x.m
        qr  == LDivDigit(LDivDigit(LDivDigit(LDivDigit(<<<<0, 0, 1>>, LSub(r, x.m)>>,
                                                     x.m), x.m), x.m), x.m)
    IN  FRound(qr[1], 0 - 52 - t - x.e, LCmp(LDouble(qr[2], 0), x.m))

\* the float n * x of an int n >= 1 (converted exactly) and a float x
FMulIntFloat(n, x) ==
    LET a0 == n * x.m[3]
        a1 == n * x.m[2] + (a0 \div Limb)
        p2 == n * x.m[1] + (a1 \div Limb)
        p1 == a1 % Limb
        p0 == a0 % Limb
        s  == BitLen(p2) - TopBits                         \* bits to discard
        w  == 2 ^ s
        up == 2 ^ (LimbBits - s)
        m  == <<p2 \div w, (p1 \div w) + (p2 % w) * up, (p0 \div w) + (p1 % w) * up>>
    IN  IF s = 0 THEN [m |-> m, e |-> x.e]
        ELSE FRound(m, x.e + s, Sign(2 * (p0 % w) - w))

\* x > y
FGreater(x, y) == IF x.e # y.e THEN x.e > y.e ELSE LCmp(x.m, y.m) > 0

\* Python's int(x): truncation; the values here stay below 2^26
FTrunc(x) ==
    LET sh == 0 - x.e
    IN  IF sh >= 53 THEN 0
        ELSE IF sh >= 2 * LimbBits THEN x.m[1] \div 2 ^ (sh - 2 * LimbBits)
        ELSE x.m[1] * 2 ^ (2 * LimbBits - sh) + (x.m[2] \div 2 ^ (sh - LimbBits))

\* the int n >= 1 on the scale of 2^e, e <= 0, as limbs; the top limb takes what
\* is above 2^36
LOfInt(n, e) ==
    LET q == (0 - e) \div LimbBits
        v == n * 2 ^ ((0 - e) % LimbBits)
    IN  IF q = 0 THEN <<0, v \div Limb, v % Limb>>
        ELSE IF q = 1 THEN <<v \div Limb, v % Limb, 0>>
        ELSE <<v * 2 ^ (LimbBits * (q - 2)), 0, 0>>

\* number of bits of the limbs x, not all zero
LBitLen(x) ==
    IF x[1] > 0 THEN 2 * LimbBits + BitLen(x[1])
    ELSE IF x[2] > 0 THEN LimbBits + BitLen(x[2])
    ELSE BitLen(x[3])

\* x * 2^k for x * 2^k < 2^53
LShiftLeft(x, k) ==
    LET q == k \div LimbBits
        y == IF q = 0 THEN x ELSE IF q = 1 THEN <<x[2], x[3], 0>> ELSE <<x[3], 0, 0>>
        r == k % LimbBits
        w == 2 ^ (LimbBits - r)
    IN  <<y[1] * 2 ^ r + (y[2] \div w), (y[2] % w) * 2 ^ r + (y[3] \div w), (y[3] % w) * 2 ^ r>>

\* the float nearest to d * 2^e, d > 0 of any length: what a subtraction returns
FOfLimbs(d, e) ==
    LET s  == LBitLen(d) - 53
        w  == 2 ^ s
        up == 2 ^ (LimbBits - s)
        m  == <<d[1] \div w, (d[2] \div w) + (d[1] % w) * up, (d[3] \div w) + (d[2] % w) * up>>
    IN  IF s <= 0 THEN [m |-> LShiftLeft(d, 0 - s), e |-> e + s]
        ELSE FRound(m, e + s, Sign(2 * (d[3] % w) - w))

\* the float n - x of an int n >= 1 (converted exactly) and a float x, with its
\* sign: s is -1, 0 or 1 and the float is s * m * 2^e
FSubIntFloat(n, x) ==
    LET a == LOfInt(n, x.e)
        c == LCmp(a, x.m)
    IN  IF c = 0 THEN [s |-> 0, m |-> <<0, 0, 0>>, e |-> 0]
        ELSE [s |-> c] @@ FOfLimbs(IF c > 0 THEN LSub(a, x.m) ELSE LSub(x.m, a), x.e)

\* x / 2 of a signed float
FHalf(x) == IF x.s = 0 THEN x ELSE [x EXCEPT !.e = @ - 1]


(***************************************************************************)
(* ImageResizer.calculate_aspect_ratio_dimensions                          *)
(***************************************************************************)
\* bounds of the sizes drawn for the call
MaxOrig == 18

MaxBox == 9

calculate_aspect_ratio_dimensions(original_size, target_size) ==
    LET orig_width    == original_size[1]
        orig_height   == original_size[2]
        target_width  == target_size[1]
        target_height == target_size[2]
        aspect_ratio  == FDivInts(orig_width, orig_height)
    IN  IF orig_width > target_width \/ orig_height > target_height
        THEN IF FGreater(FDivInts(target_width, target_height), aspect_ratio)
             THEN \* height is the constraint
                  <<FTrunc(FMulIntFloat(target_height, aspect_ratio)), target_height>>
             ELSE \* width is the constraint
                  <<target_width, FTrunc(FDivIntFloat(target_width, aspect_ratio))>>
        ELSE original_size

RzIdle == [pc |-> "idle", orig |-> <<1, 1>>, box |-> <<1, 1>>, dims |-> <<0, 0>>]

RzInit ==
    \* the sizes up to the bounds, and the specification's 800 x 600 in 400 x 400
    \E o \in ((1..MaxOrig) \X (1..MaxOrig)) \cup {<<800, 600>>},
       t \in ((1..MaxBox) \X (1..MaxBox)) \cup {<<400, 400>>} :
        rz = [pc |-> "call", orig |-> o, box |-> t, dims |-> <<0, 0>>]

CalculateDimensions ==
    /\ rz.pc = "call"
    /\ rz' = [rz EXCEPT !.pc = "done",
                        !.dims = calculate_aspect_ratio_dimensions(rz.orig, rz.box)]
    /\ UNCHANGED <<fs, call>>

(***************************************************************************)
(* Strings whose letter case the code converts are sequences of            *)
(* characters; str.upper() and str.lower() work letter by letter.          *)
(***************************************************************************)
LowerLetters ==
    <<"a", "b", "c", "d", "e", "f", "g", "h", "i", "j", "k", "l", "m",
      "n", "o", "p", "q", "r", "s", "t", "u", "v", "w", "x", "y", "z">>

UpperLetters ==
    <<"A", "B", "C", "D", "E", "F", "G", "H", "I", "J", "K", "L", "M",
      "N", "O", "P", "Q", "R", "S", "T", "U", "V", "W", "X", "Y", "Z">>

Swap(c, from, to) ==
    IF \E i \in DOMAIN from : from[i] = c
    THEN to[CHOOSE i \in DOMAIN from : from[i] = c]
    ELSE c

\* str.upper()
Upper(s) == [i \in 1..Len(s) |-> Swap(s[i], LowerLetters, UpperLetters)]

\* str.lower()
Lower(s) == [i \in 1..Len(s) |-> Swap(s[i], UpperLetters, LowerLetters)]

JPEG == <<"J", "P", "E", "G">>

PNG == <<"P", "N", "G">>

WEBP == <<"W", "E", "B", "P">>

BMP == <<"B", "M", "P">>

GIF == <<"G", "I", "F">>

TIFF == <<"T", "I", "F", "F">>

JPG == <<"J", "P", "G">>

\* None, and an optional value that is there
None == <<>>

Some(x) == <<x>>

(***************************************************************************)
(* The file system.  A path is <<directory, base name, extension>>, the    *)
(* extension a character sequence with its dot (<<>> when there is none).  *)
(* fs.dirs holds the directories that exist, fs.files maps each existing   *)
(* path to what is there: an image, a PDF, bytes that are neither          *)
(* ("corrupt") or a subdirectory ("dir").                                  *)
(***************************************************************************)
Corrupt == [kind |-> "corrupt"]

SubDir == [kind |-> "dir"]

ImageFile(format, mode, size) ==
    [kind |-> "image", format |-> format, mode |-> mode, size |-> size]

\* os.path.exists, os.path.isfile
PathExists(f, path) == path \in DOMAIN f.files

IsFile(f, path) == path \in DOMAIN f.files /\ f.files[path].kind # "dir"

DirExists(f, dir) == dir \in f.dirs

\* os.makedirs(dir, exist_ok=True)
MakeDirs(f, dir) == [f EXCEPT !.dirs = @ \cup {dir}]

WriteFile(f, path, content) ==
    [f EXCEPT !.files = [q \in DOMAIN @ \cup {path} |->
                            IF q = path THEN content ELSE @[q]]]

(***************************************************************************)
(* Pillow, as far as the services depend on it.                            *)
(***************************************************************************)
\* Image.open succeeds on image data only
Decodes(content) == content.kind = "image"

\* the modes each writer of Image.save accepts or converts by itself; the JPEG
\* writer takes none with alpha or a palette
WriterAccepts(format, mode) ==
    CASE format = JPEG -> mode \in {"1", "L", "RGB", "CMYK"}
      [] format = PNG  -> mode \in {"1", "L", "LA", "P", "RGB", "RGBA"}
      [] format = BMP  -> mode \in {"1", "L", "P", "RGB", "RGBA"}
      [] OTHER         -> TRUE

\* the mode a file written in a format has when it is opened again
StoredMode(format, mode) ==
    CASE format = GIF  -> IF mode \in {"1", "L"} THEN "L" ELSE "P"
      [] format = WEBP -> IF mode \in {"RGBA", "LA", "PA"} THEN "RGBA" ELSE "RGB"
      [] OTHER         -> mode

\* an image in memory: where its pixels come from is kept for the flattening
Flatten(img, mask) ==
    [mode |-> "RGB", size |-> img.size, flattened |-> TRUE,
     background |-> <<255, 255, 255>>, mask |-> mask, source_mode |-> img.mode]

Opened(content) ==
    [mode |-> content.mode, size |-> content.size, flattened |-> FALSE,
     background |-> None, mask |-> "none", source_mode |-> content.mode]

\* img.resize(size, LANCZOS): a size with a zero side is refused
ResizeFails(size) == size[1] <= 0 \/ size[2] <= 0

Resized(img, size) == [img EXCEPT !.size = size]

\* one call of img.save: the image and the keyword arguments handed over
SaveCall(img, kwargs) == [img |-> img, kwargs |-> kwargs]

\* the mutant opens the file for exclusive creation: a path that exists is refused
SaveToPath_NoOverwrite(f, path, img, format) ==
    IF PathExists(f, path) THEN [ok |-> FALSE, fs |-> f]
    ELSE IF ~WriterAccepts(format, img.mode) THEN [ok |-> FALSE, fs |-> f]
    ELSE [ok |-> TRUE,
          fs |-> WriteFile(f, path, ImageFile(format, StoredMode(format, img.mode), img.size))]

\* what img.save(path, **kwargs) leaves on the file system: the file is opened
\* for writing first; a writer that fails leaves a file that was there emptied
\* and removes one it had created
SaveToPath(f, path, img, format) ==
    IF path \in DOMAIN f.files /\ f.files[path].kind = "dir" THEN [ok |-> FALSE, fs |-> f]
    ELSE IF ~WriterAccepts(format, img.mode)
    THEN [ok |-> FALSE,
          fs |-> IF PathExists(f, path) THEN WriteFile(f, path, Corrupt) ELSE f]
    ELSE [ok |-> TRUE,
          fs |-> WriteFile(f, path, ImageFile(format, StoredMode(format, img.mode), img.size))]

(***************************************************************************)
(* How a call ends, and what it did: the file system it leaves, the calls  *)
(* of img.save it made, and the paths it tried to convert, in order.       *)
(***************************************************************************)
Raise(error) == [kind |-> "raise", value |-> error, data |-> <<>>]

\* value is "True", "False", "None", or names what data holds
Return(value) == [kind |-> "return", value |-> value, data |-> <<>>]

ReturnData(value, data) == [kind |-> "return", value |-> value, data |-> data]

Result(outcome, f, saves) == [outcome |-> outcome, fs |-> f, saves |-> saves]

(***************************************************************************)
(* ImageConverter                                                          *)
(***************************************************************************)
SUPPORTED_FORMATS == {JPEG, PNG, WEBP, BMP, GIF, TIFF}

FORMAT_EXTENSIONS(format) ==
    CASE format = JPEG -> <<".", "j", "p", "g">>
      [] format = PNG  -> <<".", "p", "n", "g">>
      [] format = WEBP -> <<".", "w", "e", "b", "p">>
      [] format = BMP  -> <<".", "b", "m", "p">>
      [] format = GIF  -> <<".", "g", "i", "f">>
      [] format = TIFF -> <<".", "t", "i", "f", "f">>

\* max(1, min(100, quality))
ClampQuality(quality) ==
    LET low == IF 100 < quality THEN 100 ELSE quality
    IN  IF 1 > low THEN 1 ELSE low

\* "Convert RGBA to RGB if converting to JPEG"
ConverterFlatten(img, output_format) ==
    IF output_format = JPEG /\ img.mode \in {"RGBA", "LA", "P"}
    THEN Flatten(img, IF img.mode \in {"RGBA", "LA"} THEN "alpha" ELSE "none")
    ELSE img

\* "Save with format-specific parameters"
ConverterSaveKwargs(output_format, quality, optimize) ==
    IF output_format \in {JPEG, WEBP}
    THEN [format |-> output_format, quality |-> ClampQuality(quality), optimize |-> optimize]
    ELSE IF output_format = PNG
    THEN [format |-> output_format, optimize |-> optimize]
    ELSE [format |-> output_format]

\* the mutant has the handler of convert_image_bytes: nothing is raised again
convert_image_Outcome_Swallow(raised) == Return("False")

\* the handlers of convert_image: FileNotFoundError and ValueError are raised
\* again, everything else becomes False
convert_image_Outcome(raised) ==
    IF raised \in {"FileNotFoundError", "ValueError"} THEN Raise(raised) ELSE Return("False")

\* "Resize if requested"
ConverterResized(img, resize) == IF resize # None THEN Resized(img, resize) ELSE img

\* "Create output directory if it doesn't exist"
ConverterMakeDirs(f, outdir) ==
    IF outdir # "" /\ ~DirExists(f, outdir) THEN MakeDirs(f, outdir) ELSE f

\* img.save(output_path, **save_kwargs) and what follows it
convert_image_Save(f1, output_path, img, fmt, kwargs) ==
    LET saved == SaveToPath(f1, output_path, img, fmt)
    IN  IF saved.ok
        THEN Result(Return("True"), saved.fs, <<SaveCall(img, kwargs)>>)
        ELSE Result(convert_image_Outcome("OSError"), saved.fs, <<SaveCall(img, kwargs)>>)

\* the body of convert_image once output_format is in upper case
convert_image_Upper(f, input_path, output_path, fmt, quality, resize, optimize) ==
    IF fmt \notin SUPPORTED_FORMATS
    THEN Result(convert_image_Outcome("ValueError"), f, <<>>)
    ELSE IF ~PathExists(f, input_path)
    THEN Result(convert_image_Outcome("FileNotFoundError"), f, <<>>)
    ELSE IF ~Decodes(f.files[input_path])
    THEN Result(convert_image_Outcome("OSError"), f, <<>>)
    ELSE IF resize # None /\ ResizeFails(resize)
    THEN Result(convert_image_Outcome("ValueError"), f, <<>>)
    ELSE convert_image_Save(ConverterMakeDirs(f, output_path[1]), output_path,
                            ConverterResized(ConverterFlatten(Opened(f.files[input_path]), fmt),
                                             resize),
                            fmt, ConverterSaveKwargs(fmt, quality, optimize))

convert_image(f, input_path, output_path, output_format, quality, resize, optimize) ==
    convert_image_Upper(f, input_path, output_path, Upper(output_format), quality, resize,
                        optimize)

\* the handler of convert_image_bytes: every exception becomes None
convert_image_bytes_Outcome(raised) == Return("None")

\* the bytes variant reads and writes no file: the result's value is the encoded image
\* img.save(output_buffer, **save_kwargs) and the bytes returned
convert_image_bytes_Save(f, img, fmt, kwargs) ==
    IF WriterAccepts(fmt, img.mode)
    THEN Result(ReturnData("bytes", ImageFile(fmt, StoredMode(fmt, img.mode), img.size)), f,
                <<SaveCall(img, kwargs)>>)
    ELSE Result(convert_image_bytes_Outcome("OSError"), f, <<SaveCall(img, kwargs)>>)

\* the body of convert_image_bytes once output_format is in upper case
convert_image_bytes_Upper(f, input_bytes, fmt, quality, resize, optimize) ==
    IF fmt \notin SUPPORTED_FORMATS
    THEN Result(convert_image_bytes_Outcome("ValueError"), f, <<>>)
    ELSE IF ~Decodes(input_bytes)
    THEN Result(convert_image_bytes_Outcome("OSError"), f, <<>>)
    ELSE IF resize # None /\ ResizeFails(resize)
    THEN Result(convert_image_bytes_Outcome("ValueError"), f, <<>>)
    ELSE convert_image_bytes_Save(f, ConverterResized(ConverterFlatten(Opened(input_bytes), fmt),
                                                      resize),
                                  fmt, ConverterSaveKwargs(fmt, quality, optimize))

convert_image_bytes(f, input_bytes, output_format, quality, resize, optimize) ==
    convert_image_bytes_Upper(f, input_bytes, Upper(output_format), quality, resize, optimize)

\* all the orders a directory listing may come in
Orders(S) ==
    {o \in [1..Cardinality(S) -> S] : \A i, j \in 1..Cardinality(S) : o[i] = o[j] => i = j}

\* glob.glob(os.path.join(directory, pattern)): the pattern is "*" or "*" and a suffix
Glob(f, directory, pattern) ==
    {path \in DOMAIN f.files :
        /\ path[1] = directory
        /\ \/ pattern = <<"*">>
           \/ Tail(pattern) = path[3]}

\* os.path.join(output_directory, f"{base_name}{FORMAT_EXTENSIONS[output_format]}")
BatchOutputFile(output_directory, input_file, output_format) ==
    <<output_directory, input_file[2], FORMAT_EXTENSIONS(output_format)>>

\* The state of batch_convert's loop is the file system, the two counters, the
\* paths handed to convert_image with how each ended, and the calls of img.save.
\* the mutant counts the conversions that succeed only
BatchCount_SuccessOnly(st, input_file, r) ==
    LET ok == r.outcome.kind = "return" /\ r.outcome.value = "True"
    IN  [fs         |-> r.fs,
         successful |-> IF ok THEN st.successful + 1 ELSE st.successful,
         failed     |-> st.failed,
         attempts   |-> Append(st.attempts, <<input_file, ok>>),
         saves      |-> st.saves \o r.saves]

\* the body of the loop after convert_image(input_file, ...) has ended as r; an
\* exception is counted like a False
BatchCount(st, input_file, r) ==
    LET ok == r.outcome.kind = "return" /\ r.outcome.value = "True"
    IN  [fs         |-> r.fs,
         successful |-> IF ok THEN st.successful + 1 ELSE st.successful,
         failed     |-> IF ok THEN st.failed ELSE st.failed + 1,
         attempts   |-> Append(st.attempts, <<input_file, ok>>),
         saves      |-> st.saves \o r.saves]

\* the loop of batch_convert over image_files[i..]
RECURSIVE BatchLoop(_, _, _, _, _, _)
BatchLoop(st, image_files, i, output_directory, output_format, quality) ==
    IF i > Len(image_files) THEN st
    ELSE IF ~IsFile(st.fs, image_files[i])
    THEN BatchLoop(st, image_files, i + 1, output_directory, output_format, quality)
    ELSE BatchLoop(BatchCount(st, image_files[i],
                              convert_image(st.fs, image_files[i],
                                            BatchOutputFile(output_directory, image_files[i],
                                                            output_format),
                                            output_format, quality, None, TRUE)),
                   image_files, i + 1, output_directory, output_format, quality)

\* "return successful, failed"
batch_convert_Return(st) ==
    [outcome  |-> ReturnData("counts", <<st.successful, st.failed>>),
     fs       |-> st.fs,
     saves    |-> st.saves,
     attempts |-> st.attempts]

\* the body of batch_convert once output_format is in upper case
batch_convert_Upper(f, input_directory, output_directory, fmt, quality, image_files) ==
    IF fmt \notin SUPPORTED_FORMATS
    THEN [outcome |-> Raise("ValueError"), fs |-> f, saves |-> <<>>, attempts |-> <<>>]
    ELSE IF ~DirExists(f, input_directory)
    THEN [outcome |-> Raise("FileNotFoundError"), fs |-> f, saves |-> <<>>, attempts |-> <<>>]
    ELSE batch_convert_Return(BatchLoop([fs         |-> MakeDirs(f, output_directory),
                                         successful |-> 0,
                                         failed     |-> 0,
                                         attempts   |-> <<>>,
                                         saves      |-> <<>>],
                                        image_files, 1, output_directory, fmt, quality))

\* image_files is glob's list, in the order the directory gave it
batch_convert(f, input_directory, output_directory, output_format, quality, file_pattern, image_files) ==
    batch_convert_Upper(f, input_directory, output_directory, Upper(output_format), quality,
                        image_files)

(***************************************************************************)
(* ImageResizer                                                            *)
(***************************************************************************)
DEFAULT_QUALITY == 85

THUMBNAIL_QUALITY == 80

\* the size create_thumbnail asks for by default
ThumbnailSide == 150

\* ImageResizer.__init__: self.quality
ImageResizer(quality) == ClampQuality(quality)

\* Pillow's registry of file extensions, for a save that names no format
ExtensionFormat(ext) ==
    LET e == Lower(ext)
    IN  CASE e \in {<<".", "j", "p", "g">>, <<".", "j", "p", "e", "g">>} -> JPEG
          [] e = <<".", "p", "n", "g">> -> PNG
          [] e = <<".", "w", "e", "b", "p">> -> WEBP
          [] e = <<".", "b", "m", "p">> -> BMP
          [] e = <<".", "g", "i", "f">> -> GIF
          [] e \in {<<".", "t", "i", "f">>, <<".", "t", "i", "f", "f">>} -> TIFF
          [] OTHER -> <<>>

\* img.save(path, format=..., ...): Pillow looks the format up in upper case, takes
\* it from the path's extension when none is named, and fails before it opens the
\* file when it knows no writer for it
PillowSave(f, path, img, format) ==
    LET fmt == IF format = <<>> THEN ExtensionFormat(path[3]) ELSE Upper(format)
    IN  IF fmt \notin SUPPORTED_FORMATS THEN [ok |-> FALSE, fs |-> f]
        ELSE SaveToPath(f, path, img, fmt)

\* "quality or self.quality": None and 0 are both false
QualityOr(quality, self_quality) ==
    IF quality = None \/ quality = Some(0) THEN self_quality ELSE quality[1]

\* the keyword arguments of the two ImageResizer saves
ResizerSaveKwargs(output_format, quality, self_quality) ==
    IF output_format \in {JPEG, WEBP}
    THEN [format |-> output_format, quality |-> QualityOr(quality, self_quality),
          optimize |-> TRUE]
    ELSE [format |-> output_format]

\* the flattening of the two ImageResizer operations: the alpha band is the mask
\* for RGBA only
ResizerFlatten(img) == Flatten(img, IF img.mode = "RGBA" THEN "alpha" ELSE "none")

\* ImageResizer.resize; format is None or a string (Some(string))
\* "Convert RGBA to RGB if saving as JPEG", as resize tests it
resize_Flatten(opened, image_path, format) ==
    IF /\ opened.mode \in {"RGBA", "LA", "P"}
       /\ \/ format = Some(JPEG)
          \/ format = None /\ Lower(image_path[3]) = <<".", "j", "p", "g">>
    THEN ResizerFlatten(opened)
    ELSE opened

\* "if output_format == 'JPG': output_format = 'JPEG'"
JpgToJpeg(given) == IF given = JPG THEN JPEG ELSE given

\* output_format = format or image_path.suffix[1:].upper()
resize_OutputFormat(image_path, format) ==
    JpgToJpeg(IF format = None \/ format = Some(<<>>)
              THEN Upper(IF image_path[3] = <<>> THEN <<>> ELSE Tail(image_path[3]))
              ELSE format[1])

\* the save of the two ImageResizer operations and the value returned
ResizerSave(self_quality, f1, output_path, img, output_format, quality) ==
    LET saved == PillowSave(f1, output_path, img, output_format)
    IN  Result(Return(IF saved.ok THEN "True" ELSE "False"), saved.fs,
               <<SaveCall(img, ResizerSaveKwargs(output_format, quality, self_quality))>>)

\* img.resize(new_size, LANCZOS) and the save
resize_Resample(self_quality, f1, image_path, output_path, img, new_size, format, quality) ==
    IF ResizeFails(new_size) THEN Result(Return("False"), f1, <<>>)
    ELSE ResizerSave(self_quality, f1, output_path, Resized(img, new_size),
                     resize_OutputFormat(image_path, format), quality)

\* "Calculate dimensions"
resize_Dimensions(self_quality, f1, image_path, output_path, img, size, maintain_aspect_ratio, format, quality) ==
    resize_Resample(self_quality, f1, image_path, output_path, img,
                    IF maintain_aspect_ratio
                    THEN calculate_aspect_ratio_dimensions(img.size, size)
                    ELSE size,
                    format, quality)

\* the body of resize once the output directory is there
resize_Open(self_quality, f1, image_path, output_path, size, maintain_aspect_ratio, format, quality) ==
    IF ~PathExists(f1, image_path) \/ ~Decodes(f1.files[image_path])
    THEN Result(Return("False"), f1, <<>>)
    ELSE resize_Dimensions(self_quality, f1, image_path, output_path,
                           resize_Flatten(Opened(f1.files[image_path]), image_path, format),
                           size, maintain_aspect_ratio, format, quality)

resize(self_quality, f, image_path, output_path, size, maintain_aspect_ratio, format, quality) ==
    resize_Open(self_quality, MakeDirs(f, output_path[1]), image_path, output_path, size,
                maintain_aspect_ratio, format, quality)

\* ImageResizer.create_thumbnail
create_thumbnail(self_quality, f, image_path, output_path, size, format) ==
    resize(self_quality, f, image_path, output_path, size, TRUE, format,
           Some(THUMBNAIL_QUALITY))

\* ImageResizer.convert_format
\* "Handle transparency for JPEG", as convert_format tests it
convert_format_Flatten(opened, fmt) ==
    IF fmt = JPEG /\ opened.mode \in {"RGBA", "LA", "P"}
    THEN ResizerFlatten(opened)
    ELSE opened

\* the body of convert_format once the output directory is there and the format
\* is in upper case
convert_format_Open(self_quality, f1, image_path, output_path, fmt, quality) ==
    IF ~PathExists(f1, image_path) \/ ~Decodes(f1.files[image_path])
    THEN Result(Return("False"), f1, <<>>)
    ELSE ResizerSave(self_quality, f1, output_path,
                     convert_format_Flatten(Opened(f1.files[image_path]), fmt), fmt, quality)

convert_format(self_quality, f, image_path, output_path, format, quality) ==
    convert_format_Open(self_quality, MakeDirs(f, output_path[1]), image_path, output_path,
                        JpgToJpeg(Upper(format)), quality)

\* the module's convenience functions
resize_image(f, image_path, output_path, size, quality) ==
    resize(ImageResizer(quality), f, image_path, output_path, size, TRUE, None, None)

module_create_thumbnail(f, image_path, output_path, size) ==
    create_thumbnail(ImageResizer(DEFAULT_QUALITY), f, image_path, output_path, size, None)

convert_image_format(f, image_path, output_path, format, quality) ==
    convert_format(ImageResizer(quality), f, image_path, output_path, format, Some(quality))

(***************************************************************************)
(* The calls of the image services.  A state holds one call: drawn with    *)
(* the file system it meets (pc = "call"), then made (pc = "done").        *)
(***************************************************************************)
\* format tokens a caller may pass
Tokens ==
    {JPEG, <<"j", "p", "e", "g">>, PNG, <<"p", "n", "g">>, <<"W", "e", "b", "P">>,
     BMP, GIF, TIFF, JPG, <<"X", "Y", "Z">>}

Qualities == {-5, 0, 1, DEFAULT_QUALITY, 100, 101, 150}

DotPng == <<".", "p", "n", "g">>

InputPaths ==
    {<<"in", "a", DotPng>>, <<"in", "a", <<".", "J", "P", "G">>>>,
     <<"in", "a", <<".", "j", "p", "e", "g">>>>}

OutputPath == <<"out", "a", <<".", "o", "u", "t">>>>

\* what is at the input path: nothing, bytes that are no image, or an image.
\* Image.open goes by the content, not by the name; TIFF is a format whose files
\* open in each of the modes
Missing == [kind |-> "missing"]

Sources == {Missing, Corrupt} \cup {ImageFile(TIFF, m, <<4, 3>>) :
                m \in {"L", "RGB", "RGBA", "LA", "P", "PA", "CMYK"}}

\* the file system of a single conversion: the working directory and "in" exist,
\* "out" may
SingleFs(path, source, out_exists) ==
    [dirs  |-> {"", "in"} \cup (IF out_exists THEN {"out"} ELSE {}),
     files |-> IF source = Missing THEN <<>> ELSE [q \in {path} |-> source]]

\* first is None until the call is made a second time
NewCall(op, args) ==
    [op |-> op, pc |-> "call", a |-> args, outcome |-> Return("None"),
     saves |-> <<>>, attempts |-> <<>>, first |-> None]

Done(r, attempts) ==
    [call EXCEPT !.pc = "done", !.outcome = r.outcome, !.saves = r.saves,
                 !.attempts = attempts]

\* the call has ended as r
Finish(r) == fs' = r.fs /\ call' = Done(r, <<>>) /\ UNCHANGED rz

FinishBatch(r) == fs' = r.fs /\ call' = Done(r, r.attempts) /\ UNCHANGED rz

RequestedSizes == {<<2, 2>>, <<ThumbnailSide, ThumbnailSide>>}

ConverterInit ==
    \E path \in InputPaths, source \in Sources, out_exists \in BOOLEAN,
       token \in Tokens, q \in Qualities, rs \in {None, <<2, 2>>, <<0, 2>>},
       optimize \in BOOLEAN, op \in {"convert_image", "convert_image_bytes"} :
        /\ op = "convert_image_bytes" => source # Missing /\ ~out_exists /\ path[3] = DotPng
        /\ fs = SingleFs(path, source, out_exists)
        /\ call = NewCall(op, [input_path |-> path, output_path |-> OutputPath,
                               output_format |-> token, quality |-> q,
                               resize |-> rs, optimize |-> optimize])

ConvertImage ==
    /\ call.pc = "call" /\ call.op = "convert_image"
    /\ Finish(convert_image(fs, call.a.input_path, call.a.output_path,
                              call.a.output_format, call.a.quality, call.a.resize,
                              call.a.optimize))

\* the bytes handed over are what the input path holds in the drawn file system
ConvertImageBytes ==
    /\ call.pc = "call" /\ call.op = "convert_image_bytes"
    /\ Finish(convert_image_bytes(fs, fs.files[call.a.input_path], call.a.output_format,
                                    call.a.quality, call.a.resize, call.a.optimize))

OptionalFormats == {None, Some(<<>>)} \cup {Some(t) : t \in Tokens}

OptionalQualities == {None} \cup {Some(q) : q \in Qualities}

\* the calls of an ImageResizer object: self is the object as __init__ left it
ResizerInit ==
    \E path \in InputPaths, source \in Sources, q0 \in {DEFAULT_QUALITY, 150, -5} :
        /\ fs = SingleFs(path, source, FALSE)
        /\ \/ \E format \in OptionalFormats, q \in OptionalQualities, keep \in BOOLEAN :
                 call = NewCall("resize",
                                [self |-> [quality |-> ImageResizer(q0)], init_quality |-> q0,
                                 image_path |-> path, output_path |-> OutputPath,
                                 size |-> <<2, 2>>, maintain_aspect_ratio |-> keep,
                                 format |-> format, quality |-> q])
           \/ \E format \in OptionalFormats, size \in RequestedSizes :
                 call = NewCall("create_thumbnail",
                                [self |-> [quality |-> ImageResizer(q0)], init_quality |-> q0,
                                 image_path |-> path, output_path |-> OutputPath,
                                 size |-> size, format |-> format])
           \/ \E format \in Tokens, q \in OptionalQualities :
                 call = NewCall("convert_format",
                                [self |-> [quality |-> ImageResizer(q0)], init_quality |-> q0,
                                 image_path |-> path, output_path |-> OutputPath,
                                 format |-> format, quality |-> q])

\* the calls of the module's convenience functions
ResizerModuleInit ==
    \E path \in InputPaths, source \in Sources :
        /\ fs = SingleFs(path, source, FALSE)
        /\ \/ \E q \in Qualities, size \in RequestedSizes :
                 call = NewCall("resize_image",
                                [image_path |-> path, output_path |-> OutputPath,
                                 size |-> size, quality |-> q])
           \/ \E size \in RequestedSizes :
                 call = NewCall("module_create_thumbnail",
                                [image_path |-> path, output_path |-> OutputPath,
                                 size |-> size])
           \/ \E format \in Tokens, q \in Qualities :
                 call = NewCall("convert_image_format",
                                [image_path |-> path, output_path |-> OutputPath,
                                 format |-> format, quality |-> q])

Resize ==
    /\ call.pc = "call" /\ call.op = "resize"
    /\ Finish(resize(call.a.self.quality, fs, call.a.image_path, call.a.output_path,
                       call.a.size, call.a.maintain_aspect_ratio, call.a.format,
                       call.a.quality))

CreateThumbnail ==
    /\ call.pc = "call" /\ call.op = "create_thumbnail"
    /\ Finish(create_thumbnail(call.a.self.quality, fs, call.a.image_path,
                                 call.a.output_path, call.a.size, call.a.format))

ConvertFormat ==
    /\ call.pc = "call" /\ call.op = "convert_format"
    /\ Finish(convert_format(call.a.self.quality, fs, call.a.image_path,
                               call.a.output_path, call.a.format, call.a.quality))

ResizeImage ==
    /\ call.pc = "call" /\ call.op = "resize_image"
    /\ Finish(resize_image(fs, call.a.image_path, call.a.output_path, call.a.size,
                             call.a.quality))

ModuleCreateThumbnail ==
    /\ call.pc = "call" /\ call.op = "module_create_thumbnail"
    /\ Finish(module_create_thumbnail(fs, call.a.image_path, call.a.output_path,
                                        call.a.size))

ConvertImageFormat ==
    /\ call.pc = "call" /\ call.op = "convert_image_format"
    /\ Finish(convert_image_format(fs, call.a.image_path, call.a.output_path,
                                     call.a.format, call.a.quality))

(***************************************************************************)
(* batch_convert: the input directory "in" with up to four entries and a   *)
(* subdirectory, converted into itself, an existing or a new directory.    *)
(***************************************************************************)
BatchNames == {<<"a", DotPng>>, <<"a", <<".", "g", "i", "f">>>>, <<"b", DotPng>>, <<"c", DotPng>>}

BatchFs(in_exists, entries, subdir) ==
    LET names == {n \in BatchNames : entries[n] # Missing}
        paths == {<<"in", n[1], n[2]>> : n \in names}
                    \cup (IF subdir THEN {<<"in", "d", <<>>>>} ELSE {})
    IN  IF in_exists
        THEN [dirs  |-> {"", "in", "out"},
              files |-> [q \in paths |-> IF q[2] = "d" THEN SubDir ELSE entries[<<q[2], q[3]>>]]]
        ELSE [dirs |-> {"", "out"}, files |-> <<>>]

BatchInit ==
    \E in_exists \in BOOLEAN,
       entries \in [BatchNames -> {Missing, Corrupt, ImageFile(PNG, "RGBA", <<4, 3>>)}],
       subdir \in BOOLEAN, out \in {"in", "out", "new"},
       token \in {JPEG, <<"p", "n", "g">>, GIF, <<"X", "Y", "Z">>},
       pattern \in {<<"*">>, <<"*">> \o DotPng} :
        /\ ~in_exists => subdir = FALSE /\ \A n \in BatchNames : entries[n] = Missing
        /\ fs = BatchFs(in_exists, entries, subdir)
        /\ call = NewCall("batch_convert",
                          [input_directory |-> "in", output_directory |-> out,
                           output_format |-> token, quality |-> DEFAULT_QUALITY,
                           file_pattern |-> pattern])

BatchConvert ==
    /\ call.pc = "call" /\ call.op = "batch_convert"
    /\ \E image_files \in Orders(Glob(fs, call.a.input_directory, call.a.file_pattern)) :
          FinishBatch(batch_convert(fs, call.a.input_directory, call.a.output_directory,
                                 call.a.output_format, call.a.quality,
                                 call.a.file_pattern, image_files))

ImageInit == rz = RzIdle /\ (ConverterInit \/ ResizerInit \/ ResizerModuleInit \/ BatchInit)

ImageNext ==
    \/ ConvertImage
    \/ ConvertImageBytes
    \/ Resize
    \/ CreateThumbnail
    \/ ConvertFormat
    \/ ResizeImage
    \/ ModuleCreateThumbnail
    \/ ConvertImageFormat
    \/ BatchConvert

\* the image services
SpecImage == ImageInit /\ [][ImageNext]_vars

(***************************************************************************)
(* The same conversion made twice in a row with the same arguments: the    *)
(* second call meets the file system the first one left, and call.first    *)
(* keeps how the first one ended.                                          *)
(***************************************************************************)
\* convert_image into another directory or onto its own input
ConvertAgainInit ==
    \E source \in Sources, out_exists \in BOOLEAN, in_place \in BOOLEAN,
       token \in {JPEG, <<"p", "n", "g">>, GIF, <<"X", "Y", "Z">>},
       rs \in {None, <<2, 2>>, <<0, 2>>} :
        /\ fs = SingleFs(<<"in", "a", DotPng>>, source, out_exists)
        /\ call = NewCall("convert_image",
                          [input_path |-> <<"in", "a", DotPng>>,
                           output_path |-> IF in_place THEN <<"in", "a", DotPng>>
                                                       ELSE OutputPath,
                           output_format |-> token, quality |-> DEFAULT_QUALITY,
                           resize |-> rs, optimize |-> TRUE])

\* batch_convert over the entries a.png, a.gif and b.png
BatchAgainInit ==
    /\ BatchInit
    /\ <<"in", "c", DotPng>> \notin DOMAIN fs.files
    /\ <<"in", "d", <<>>>> \notin DOMAIN fs.files

RepeatInit == rz = RzIdle /\ (ConvertAgainInit \/ BatchAgainInit)

\* the caller makes the call it has made once more
RunAgain ==
    /\ call.pc = "done" /\ call.first = None
    /\ call' = [call EXCEPT !.pc = "call",
                            !.first = Some([outcome |-> call.outcome,
                                            attempts |-> call.attempts, fs |-> fs])]
    /\ UNCHANGED <<rz, fs>>

RepeatNext ==
    \/ ConvertImage
    \/ BatchConvert
    \/ RunAgain

\* a conversion and its repetition
SpecRepeat == RepeatInit /\ [][RepeatNext]_vars

(***************************************************************************)
(* The route POST /api/image-convert (backend/routes/image_routes.py).  A  *)
(* response body is a record: the JSON object the handler returns.         *)
(***************************************************************************)
\* the handler: its try block builds the status object and returns it; nothing
\* in it reads the file or calls a service, and the except clause would answer
\* {"error": str(e)}
image_convert(file, target_format, quality, remove_metadata) ==
    ReturnData("json", [status        |-> "processing",
                        message       |-> "Image format conversion endpoint ready",
                        target_format |-> target_format,
                        quality       |-> quality])

\* a request the framework has accepted: an uploaded file and the form fields;
\* the module has made the directory "temp" when it was imported
RouteInit ==
    \E file \in Sources \ {Missing}, target_format \in Tokens, quality \in Qualities \cup {90},
       remove_metadata \in BOOLEAN :
        /\ rz = RzIdle
        /\ fs = [dirs |-> {"", "temp"}, files |-> <<>>]
        /\ call = NewCall("image_convert",
                          [file |-> file, target_format |-> target_format,
                           quality |-> quality, remove_metadata |-> remove_metadata])

ImageConvert ==
    /\ call.pc = "call" /\ call.op = "image_convert"
    /\ call' = Done([outcome |-> image_convert(call.a.file, call.a.target_format,
                                                call.a.quality, call.a.remove_metadata),
                      saves |-> <<>>], <<>>)
    /\ UNCHANGED <<rz, fs>>

\* the route
SpecRoute == RouteInit /\ [][ImageConvert]_vars

ResizeInit == RzInit /\ fs = [dirs |-> {""}, files |-> <<>>] /\ call = NewCall("none", <<>>)

\* the dimension arithmetic of the resizer alone
SpecResize == ResizeInit /\ [][CalculateDimensions]_vars

\* "aspect_ratio = orig_width / orig_height": a height of 0 raises
\* ZeroDivisionError before anything else is looked at
AspectRatioRaises(original_size) == original_size[2] = 0

\* the size returned is handed to the function again, with the same box
CalculateAgain ==
    /\ rz.pc = "done"
    /\ rz' = IF AspectRatioRaises(rz.dims)
             THEN [rz EXCEPT !.pc = "raised", !.orig = rz.dims]
             ELSE [rz EXCEPT !.pc = "twice", !.orig = rz.dims,
                             !.dims = calculate_aspect_ratio_dimensions(rz.dims, rz.box)]
    /\ UNCHANGED <<fs, call>>

\* the dimension arithmetic applied, and applied again to its result
SpecFixedPoint == ResizeInit /\ [][CalculateDimensions \/ CalculateAgain]_vars


(***************************************************************************)
(* PDFConverter.  A PDF file is the sequence of its pages.  The pages of a *)
(* source document are <<document, number>>; a page images_to_pdf draws    *)
(* holds the image drawn and the width and height it is drawn with.  Base  *)
(* names are character sequences here, as split_pdf formats them.          *)
(***************************************************************************)
DotPdf == <<".", "p", "d", "f">>

SUPPORTED_IMAGE_FORMATS ==
    {<<".", "j", "p", "g">>, <<".", "j", "p", "e", "g">>, <<".", "p", "n", "g">>,
     <<".", "g", "i", "f">>, <<".", "b", "m", "p">>, <<".", "t", "i", "f", "f">>}

PdfFile(pages) == [kind |-> "pdf", pages |-> pages]

\* PdfReader and PdfMerger.append take PDF data only
ReadsAsPdf(content) == content.kind = "pdf"

\* raise PDFConverterError(message)
PDFConverterError(message) ==
    [kind |-> "raise", value |-> "PDFConverterError", data |-> message]

\* reportlab's letter, in points
Letter == <<612, 792>>

\* the mutant takes every path that exists, whatever its extension
ValidImage_AnyExtension(f, img_path) == PathExists(f, img_path)

\* one pass of the validation loop of images_to_pdf
ValidImage(f, img_path) ==
    PathExists(f, img_path) /\ Lower(img_path[3]) \in SUPPORTED_IMAGE_FORMATS

valid_images(f, image_paths) ==
    SelectSeq(image_paths, LAMBDA img_path : ValidImage(f, img_path))

\* "Scale image to fit": <<new_width, new_height>>, both floats
ScaleToFit(available_width, available_height, aspect_ratio) ==
    IF FGreater(aspect_ratio, FDivInts(available_width, available_height))
    THEN <<FDivInts(available_width, 1), FDivIntFloat(available_width, aspect_ratio)>>
    ELSE <<FMulIntFloat(available_height, aspect_ratio), FDivInts(available_height, 1)>>

\* "Center image on page": (page_extent - new_extent) / 2, a signed float
Centre(page_extent, new_extent) == FHalf(FSubIntFloat(page_extent, new_extent))

\* c.drawImage(img_reader, x, y, width=new_width, height=new_height); c.showPage()
DrawnPage(img_path, page_size, new_size) ==
    [image |-> img_path,
     x |-> Centre(page_size[1], new_size[1]), y |-> Centre(page_size[2], new_size[2]),
     width |-> new_size[1], height |-> new_size[2]]

\* the body of the drawing loop for an image that opens
DrawPage(img_path, content, page_size, margin) ==
    DrawnPage(img_path, page_size,
              ScaleToFit(page_size[1] - 2 * margin, page_size[2] - 2 * margin,
                         FDivInts(content.size[1], content.size[2])))

\* what makes the body of the drawing loop raise: Image.open on data that is no
\* image, and the division by an available height of zero
DrawFails(content, page_size, margin) ==
    ~Decodes(content) \/ page_size[2] - 2 * margin = 0

\* the drawing loop over valid_images[i..]: the canvas keeps its pages in memory
RECURSIVE DrawLoop(_, _, _, _, _, _)
DrawLoop(f, valid, i, canvas_pages, page_size, margin) ==
    IF i > Len(valid) THEN [ok |-> TRUE, pages |-> canvas_pages]
    ELSE IF DrawFails(f.files[valid[i]], page_size, margin)
    THEN [ok |-> FALSE, pages |-> canvas_pages]
    ELSE DrawLoop(f, valid, i + 1,
                  Append(canvas_pages, DrawPage(valid[i], f.files[valid[i]], page_size, margin)),
                  page_size, margin)

\* the mutant saves the pages drawn so far before it raises
images_to_pdf_Save_Partial(f, output_path, drawn) ==
    Result(IF drawn.ok THEN Return("True") ELSE PDFConverterError("Failed to process image"),
           WriteFile(f, output_path, PdfFile(drawn.pages)), <<>>)

\* the end of the drawing loop: the error of a failed image, or c.save(), the
\* only place the output file is written
images_to_pdf_Save(f, output_path, drawn) ==
    IF ~drawn.ok
    THEN Result(PDFConverterError("Failed to process image"), f, <<>>)
    ELSE Result(Return("True"), WriteFile(f, output_path, PdfFile(drawn.pages)), <<>>)

\* the mutant goes on without the test for an empty valid_images
images_to_pdf_Valid_Unchecked(f, valid, output_path, page_size, margin) ==
    images_to_pdf_Save(f, output_path, DrawLoop(f, valid, 1, <<>>, page_size, margin))

\* images_to_pdf from the test of valid_images on
images_to_pdf_Valid(f, valid, output_path, page_size, margin) ==
    IF valid = <<>>
    THEN Result(PDFConverterError("No valid images found to convert"), f, <<>>)
    ELSE images_to_pdf_Save(f, output_path, DrawLoop(f, valid, 1, <<>>, page_size, margin))

images_to_pdf(f, image_paths, output_path, page_size, margin) ==
    IF image_paths = <<>>
    THEN Result(PDFConverterError("No image paths provided"), f, <<>>)
    ELSE images_to_pdf_Valid(f, valid_images(f, image_paths), output_path, page_size, margin)

\* text_content.split('\n') from character i on: current is the line being read
RECURSIVE Split(_, _, _)
Split(text, i, current) ==
    IF i > Len(text) THEN <<current>>
    ELSE IF text[i] = "\n" THEN <<current>> \o Split(text, i + 1, <<>>)
    ELSE Split(text, i + 1, Append(current, text[i]))

\* margin = 40 of text_to_pdf
TextMargin == 40

\* the fonts c.setFont knows; for any other name it raises
StandardFonts == {"Helvetica", "Courier"}

\* c.showPage(): the page in hand joins the pages of the document
ShowPage(canvas) == [pages |-> Append(canvas.pages, [draws |-> canvas.page]), page |-> <<>>]

\* c.drawString(margin, y_position, line)
DrawString(canvas, x, y, line) ==
    [canvas EXCEPT !.page = Append(@, [x |-> x, y |-> y, text |-> line])]

\* the mutant also leaves the page when the next line would stand on the margin
RECURSIVE TextLoop_AtMargin(_, _, _, _, _, _)
TextLoop_AtMargin(canvas, lines, i, y_position, page_height, line_height) ==
    IF i > Len(lines) THEN canvas
    ELSE IF y_position <= TextMargin
    THEN TextLoop_AtMargin(DrawString(ShowPage(canvas), TextMargin, page_height - TextMargin,
                                      lines[i]),
                           lines, i + 1, page_height - TextMargin - line_height, page_height,
                           line_height)
    ELSE TextLoop_AtMargin(DrawString(canvas, TextMargin, y_position, lines[i]),
                           lines, i + 1, y_position - line_height, page_height, line_height)

\* the loop over lines[i..] of text_to_pdf
RECURSIVE TextLoop(_, _, _, _, _, _)
TextLoop(canvas, lines, i, y_position, page_height, line_height) ==
    IF i > Len(lines) THEN canvas
    ELSE IF y_position < TextMargin
    THEN TextLoop(DrawString(ShowPage(canvas), TextMargin, page_height - TextMargin, lines[i]),
                  lines, i + 1, page_height - TextMargin - line_height, page_height, line_height)
    ELSE TextLoop(DrawString(canvas, TextMargin, y_position, lines[i]),
                  lines, i + 1, y_position - line_height, page_height, line_height)

\* c.save(): the page in hand is shown (it holds the font or a line) and the
\* file is written
text_to_pdf_Save(f, output_path, canvas) ==
    Result(Return("True"), WriteFile(f, output_path, PdfFile(ShowPage(canvas).pages)), <<>>)

text_to_pdf(f, text_content, output_path, page_size, font_name, font_size) ==
    IF text_content = <<>>
    THEN Result(PDFConverterError("No text content provided"), f, <<>>)
    ELSE IF font_name \notin StandardFonts
    THEN Result(PDFConverterError("Unexpected error"), f, <<>>)
    ELSE text_to_pdf_Save(f, output_path,
                          TextLoop([pages |-> <<>>, page |-> <<>>], Split(text_content, 1, <<>>),
                                   1, page_size[2] - TextMargin, page_size[2], font_size + 4))

\* the mutant puts the pages of an appended document in front
AppendPages_InFront(merged_pages, content) == content.pages \o merged_pages

\* merger.append(pdf_path)
AppendPages(merged_pages, content) == merged_pages \o content.pages

\* the loop of merge_pdfs over pdf_paths[i..]
RECURSIVE MergeLoop(_, _, _, _)
MergeLoop(f, pdf_paths, i, merged_pages) ==
    IF i > Len(pdf_paths) THEN [ok |-> TRUE, pages |-> merged_pages]
    ELSE IF ~PathExists(f, pdf_paths[i])
    THEN MergeLoop(f, pdf_paths, i + 1, merged_pages)
    ELSE IF ~ReadsAsPdf(f.files[pdf_paths[i]])
    THEN [ok |-> FALSE, pages |-> merged_pages]
    ELSE MergeLoop(f, pdf_paths, i + 1, AppendPages(merged_pages, f.files[pdf_paths[i]]))

\* the end of the loop: the error of a failed append, or merger.write(output_path)
merge_pdfs_Write(f, output_path, merged) ==
    IF ~merged.ok
    THEN Result(PDFConverterError("Failed to process PDF"), f, <<>>)
    ELSE Result(Return("True"), WriteFile(f, output_path, PdfFile(merged.pages)), <<>>)

\* the output path is none of the listed paths
merge_pdfs(f, pdf_paths, output_path) ==
    IF pdf_paths = <<>>
    THEN Result(PDFConverterError("No PDF paths provided"), f, <<>>)
    ELSE merge_pdfs_Write(f, output_path, MergeLoop(f, pdf_paths, 1, <<>>))

DecimalDigits == <<"0", "1", "2", "3", "4", "5", "6", "7", "8", "9">>

\* str(n) for n >= 0
RECURSIVE Decimal(_)
Decimal(n) ==
    IF n < 10 THEN <<DecimalDigits[n + 1]>>
    ELSE Decimal(n \div 10) \o <<DecimalDigits[(n % 10) + 1]>>

RECURSIVE ZeroPad(_, _)
ZeroPad(digits, width) ==
    IF Len(digits) >= width THEN digits ELSE ZeroPad(<<"0">> \o digits, width)

\* the field width of the page number in a split file's name
PageNumberWidth == 4

\* os.path.join(output_dir, f"page_{page_num:04d}.pdf")
SplitOutputPath(output_dir, page_num) ==
    <<output_dir, <<"p", "a", "g", "e", "_">> \o ZeroPad(Decimal(page_num), PageNumberWidth),
      DotPdf>>

\* the mutant takes the last page for out of range
ValidPage_BelowLast(p, total_pages) == 1 <= p /\ p < total_pages

\* "Validate page numbers"
ValidPage(p, total_pages) == 1 <= p /\ p <= total_pages

\* pages, or every page when pages is None
RequestedPageList(pages, total_pages) ==
    IF pages = None THEN [p \in 1..total_pages |-> p] ELSE pages[1]

\* the loop of split_pdf over pages[i..]: each pass writes one single-page file
RECURSIVE SplitLoop(_, _, _, _, _, _)
SplitLoop(f, reader_pages, pages, i, output_dir, created_files) ==
    IF i > Len(pages) THEN [fs |-> f, created_files |-> created_files]
    ELSE SplitLoop(WriteFile(f, SplitOutputPath(output_dir, pages[i]),
                             PdfFile(<<reader_pages[pages[i]]>>)),
                   reader_pages, pages, i + 1, output_dir,
                   Append(created_files, SplitOutputPath(output_dir, pages[i])))

\* "return created_files"
split_pdf_Return(split) == Result(ReturnData("paths", split.created_files), split.fs, <<>>)

\* split_pdf from the test of the validated pages on
split_pdf_Pages(f1, reader_pages, pages, output_dir) ==
    IF pages = <<>>
    THEN Result(PDFConverterError("No valid pages specified"), f1, <<>>)
    ELSE split_pdf_Return(SplitLoop(f1, reader_pages, pages, 1, output_dir, <<>>))

\* split_pdf from PdfReader(input_path) on; the reader holds the pages it read
split_pdf_Read(f1, content, output_dir, pages) ==
    IF ~ReadsAsPdf(content)
    THEN Result(PDFConverterError("Unexpected error"), f1, <<>>)
    ELSE split_pdf_Pages(f1, content.pages,
                         SelectSeq(RequestedPageList(pages, Len(content.pages)),
                                   LAMBDA p : ValidPage(p, Len(content.pages))),
                         output_dir)

\* the input is no file of the output directory
split_pdf(f, input_path, output_dir, pages) ==
    IF ~PathExists(f, input_path)
    THEN Result(PDFConverterError("Input PDF not found"), f, <<>>)
    ELSE split_pdf_Read(MakeDirs(f, output_dir), f.files[input_path], output_dir, pages)

(***************************************************************************)
(* The calls of PDFConverter.                                              *)
(***************************************************************************)
\* the longest list of paths a call is given
MaxPaths == 3

\* the most pages of a document that is split
MaxPages == 5

\* the longest list of page numbers a call is given
MaxRequest == 3

BoundedSeqs(S, n) == UNION {[1..k -> S] : k \in 0..n}

\* the files a PDF call meets, without those that are missing
FilesOf(entries) ==
    [q \in {x \in DOMAIN entries : entries[x] # Missing} |-> entries[q]]

ImageA == <<"in", <<"a">>, DotPng>>

ImageB == <<"in", <<"b">>, <<".", "J", "P", "G">>>>

\* an image under a name images_to_pdf does not take
ImageC == <<"in", <<"c">>, <<".", "w", "e", "b", "p">>>>

PdfOutput == <<"out", <<"o">>, DotPdf>>

ImagesInit ==
    \E a \in {Missing, Corrupt, ImageFile(PNG, "RGB", <<4, 3>>)},
       b \in {Missing, Corrupt, ImageFile(JPEG, "RGB", <<3, 4>>)},
       old \in {Missing, Corrupt},
       image_paths \in BoundedSeqs({ImageA, ImageB, ImageC}, MaxPaths),
       \* the default margin, and half the height of the page
       margin \in {10, Letter[2] \div 2} :
        /\ fs = [dirs  |-> {"", "in", "out"},
                 files |-> FilesOf((ImageA :> a) @@ (ImageB :> b) @@ (PdfOutput :> old)
                                   @@ (ImageC :> ImageFile(WEBP, "RGB", <<4, 3>>)))]
        /\ call = NewCall("images_to_pdf",
                          [image_paths |-> image_paths, output_path |-> PdfOutput,
                           page_size |-> Letter, margin |-> margin])

\* the longest side of an image that is laid out on a page
MaxImage == 12

\* one image of any size up to MaxImage on a letter page, upright or on its
\* side, inside margins that leave room
LayoutInit ==
    \E size \in (1..MaxImage) \X (1..MaxImage),
       page_size \in {Letter, <<Letter[2], Letter[1]>>},
       margin \in {0, 10, 56, 180} :
        /\ fs = [dirs  |-> {"", "in", "out"},
                 files |-> (ImageA :> ImageFile(PNG, "RGB", size))]
        /\ call = NewCall("images_to_pdf",
                          [image_paths |-> <<ImageA>>, output_path |-> PdfOutput,
                           page_size |-> page_size, margin |-> margin])

\* the longest text that is laid out
MaxText == 5

\* texts of lines and line ends on a letter page, a small page and one too
\* low for a line between its margins
TextInit ==
    \E text_content \in BoundedSeqs({"a", "b", "\n"}, MaxText),
       page_size \in {Letter, <<100, 112>>, <<60, 70>>},
       font_name \in {"Helvetica", "Wingdings"},
       \* the default size, and sizes that end a letter page after two lines and after one
       font_size \in {12, 300, 800},
       old \in {Missing, Corrupt} :
        /\ fs = [dirs  |-> {"", "in", "out"}, files |-> FilesOf(PdfOutput :> old)]
        /\ call = NewCall("text_to_pdf",
                          [text_content |-> text_content, output_path |-> PdfOutput,
                           page_size |-> page_size, font_name |-> font_name,
                           font_size |-> font_size])

TextToPdf ==
    /\ call.pc = "call" /\ call.op = "text_to_pdf"
    /\ Finish(text_to_pdf(fs, call.a.text_content, call.a.output_path, call.a.page_size,
                          call.a.font_name, call.a.font_size))

ImagesToPdf ==
    /\ call.pc = "call" /\ call.op = "images_to_pdf"
    /\ Finish(images_to_pdf(fs, call.a.image_paths, call.a.output_path, call.a.page_size,
                            call.a.margin))

PdfX == <<"in", <<"x">>, DotPdf>>

PdfY == <<"in", <<"y">>, DotPdf>>

PdfZ == <<"in", <<"z">>, DotPdf>>

\* a document of n pages
Document(name, n) == PdfFile([k \in 1..n |-> <<name, k>>])

MergeInit ==
    \E x \in {Missing, Corrupt, Document("x", 2)},
       y \in {Missing, Document("y", 1), Document("y", 0)},
       z \in {Missing, Document("z", 1)},
       old \in {Missing, Corrupt},
       pdf_paths \in BoundedSeqs({PdfX, PdfY, PdfZ}, MaxPaths) :
        /\ fs = [dirs  |-> {"", "in", "out"},
                 files |-> FilesOf((PdfX :> x) @@ (PdfY :> y) @@ (PdfZ :> z)
                                   @@ (PdfOutput :> old))]
        /\ call = NewCall("merge_pdfs", [pdf_paths |-> pdf_paths, output_path |-> PdfOutput])

MergePdfs ==
    /\ call.pc = "call" /\ call.op = "merge_pdfs"
    /\ Finish(merge_pdfs(fs, call.a.pdf_paths, call.a.output_path))

SplitInit ==
    \E doc \in {Missing, Corrupt} \cup {Document("d", n) : n \in 0..MaxPages},
       out \in {"out", "new"},
       old \in {Missing, Corrupt},
       \* page numbers below, in and beyond the document
       pages \in {None} \cup {Some(r) : r \in BoundedSeqs({0, 1, 2, 4, MaxPages + 1, 99},
                                                          MaxRequest)} :
        /\ out = "new" => old = Missing
        /\ fs = [dirs  |-> {"", "in", "out"},
                 files |-> FilesOf((PdfX :> doc) @@ (SplitOutputPath("out", 2) :> old))]
        /\ call = NewCall("split_pdf",
                          [input_path |-> PdfX, output_dir |-> out, pages |-> pages])

SplitPdf ==
    /\ call.pc = "call" /\ call.op = "split_pdf"
    /\ Finish(split_pdf(fs, call.a.input_path, call.a.output_dir, call.a.pages))

PdfInit == rz = RzIdle /\ (ImagesInit \/ LayoutInit \/ TextInit \/ MergeInit \/ SplitInit)

PdfNext ==
    \/ ImagesToPdf
    \/ TextToPdf
    \/ MergePdfs
    \/ SplitPdf

\* the PDF service
SpecPdf == PdfInit /\ [][PdfNext]_vars

(***************************************************************************)
(* Properties of the dimension arithmetic (SpecResize).                    *)
(***************************************************************************)
\* the uniform scale by s = min(target_width / original_width,
\* target_height / original_height) in exact arithmetic, both sides truncated
UniformScale(original_size, target_size) ==
    IF target_size[1] * original_size[2] <= target_size[2] * original_size[1]
    THEN <<target_size[1], (original_size[2] * target_size[1]) \div original_size[1]>>
    ELSE <<(original_size[1] * target_size[2]) \div original_size[2], target_size[2]>>

\* C1: calculate_aspect_ratio_dimensions returns the uniform scale of the
\* original by min(tw/ow, th/oh), truncated, whenever the original exceeds the
\* box in width or in height, and the original size in every other case.
C1_AgreesWithUniformScale ==
    rz.pc = "done" =>
        rz.dims = IF rz.orig[1] > rz.box[1] \/ rz.orig[2] > rz.box[2]
                  THEN UniformScale(rz.orig, rz.box)
                  ELSE rz.orig

(***************************************************************************)
(* Properties of the image services (SpecImage).                           *)
(***************************************************************************)
ResizerMethods == {"resize", "create_thumbnail", "convert_format"}

\* C2: an ImageResizer stores its quality clamped into 1..100, and every
\* quality handed to the encoder by any operation lies in 1..100.
C2_QualityClamped ==
    /\ call.op \in ResizerMethods =>
          /\ call.a.self.quality \in 1..100
          /\ call.a.self.quality =
                IF call.a.init_quality > 100 THEN 100
                ELSE IF call.a.init_quality < 1 THEN 1 ELSE call.a.init_quality
    /\ call.pc = "done" =>
          \A i \in DOMAIN call.saves :
              "quality" \in DOMAIN call.saves[i].kwargs =>
                  call.saves[i].kwargs.quality \in 1..100

ConverterSingleCalls == {"convert_image", "convert_image_bytes"}

\* the colour modes that carry alpha or a palette
AlphaOrPaletteModes == {"RGBA", "LA", "P", "PA"}

\* C3: in convert_image and convert_image_bytes an image with alpha or a
\* palette that goes to JPEG reaches the encoder as RGB composited on white and
\* the conversion succeeds; for every other target the encoder gets the source
\* mode unchanged.
C3_JpegFlattened ==
    (call.pc = "done" /\ call.op \in ConverterSingleCalls /\ Len(call.saves) = 1) =>
        LET source == fs.files[call.a.input_path]
            handed == call.saves[1].img
        IN  IF Upper(call.a.output_format) = JPEG
            THEN source.mode \in AlphaOrPaletteModes =>
                    /\ handed.mode = "RGB"
                    /\ handed.flattened
                    /\ handed.background = <<255, 255, 255>>
                    /\ call.outcome.kind = "return"
                    /\ call.outcome.value \in {"True", "bytes"}
            ELSE handed.mode = source.mode /\ ~handed.flattened

ConverterEntryPoints == {"convert_image", "convert_image_bytes", "batch_convert"}

\* C4: every entry point of the converter raises the unsupported-format error
\* when the upper-cased output_format is not supported, before it opens an image
\* or creates a file or a directory; a supported token in any letter case is
\* not refused.
C4_UnsupportedFormatRaises ==
    [][(call.pc = "call" /\ call.op \in ConverterEntryPoints /\ call'.pc = "done") =>
          IF Upper(call.a.output_format) \notin SUPPORTED_FORMATS
          THEN /\ call'.outcome.kind = "raise"
               /\ call'.outcome.value = "ValueError"
               /\ call'.saves = <<>>
               /\ call'.attempts = <<>>
               /\ fs' = fs
          ELSE (call.op = "batch_convert" \/ call.a.resize = None \/ ~ResizeFails(call.a.resize))
                  => call'.outcome.value # "ValueError"]_vars

\* the regular files of the input directory that match the pattern
MatchedFiles ==
    {path \in DOMAIN fs.files :
        /\ path[1] = call.a.input_directory
        /\ fs.files[path].kind # "dir"
        /\ \/ call.a.file_pattern = <<"*">>
           \/ Tail(call.a.file_pattern) = path[3]}

CountOf(attempts, ok) == Cardinality({i \in DOMAIN attempts : attempts[i][2] = ok})

\* C5: batch_convert on an existing input directory attempts every matched
\* regular file exactly once whatever fails, and returns the number of files
\* that converted and the number that did not; without the input directory it
\* raises, attempts nothing and creates nothing.
C5_BatchCounts ==
    [][(call.pc = "call" /\ call.op = "batch_convert" /\ call'.pc = "done") =>
          IF call.a.input_directory \notin fs.dirs
          THEN /\ call'.outcome.kind = "raise"
               /\ call'.attempts = <<>>
               /\ call'.saves = <<>>
               /\ fs' = fs
          ELSE Upper(call.a.output_format) \in SUPPORTED_FORMATS =>
               /\ call'.outcome.kind = "return"
               /\ Len(call'.attempts) = Cardinality(MatchedFiles)
               /\ {call'.attempts[i][1] : i \in DOMAIN call'.attempts} = MatchedFiles
               /\ call'.outcome.data = <<CountOf(call'.attempts, TRUE),
                                         CountOf(call'.attempts, FALSE)>>
               /\ call'.outcome.data[1] + call'.outcome.data[2] = Cardinality(MatchedFiles)
               /\ \A i \in DOMAIN call'.attempts :
                     call'.attempts[i][2] =>
                        LET output_file == <<call.a.output_directory, call'.attempts[i][1][2],
                                             FORMAT_EXTENSIONS(Upper(call.a.output_format))>>
                        IN  /\ output_file \in DOMAIN fs'.files
                            /\ fs'.files[output_file].kind = "image"
               /\ call.a.output_directory # call.a.input_directory =>
                     \A i \in DOMAIN call'.attempts :
                        call'.attempts[i][2] <=> Decodes(fs.files[call'.attempts[i][1]])]_vars

\* C5, its case: three files convert and one, the first attempted, does not
C5_ThreeAndOne ==
    /\ call.op = "batch_convert" /\ call.pc = "done"
    /\ call.outcome.kind = "return"
    /\ call.outcome.data = <<3, 1>>
    /\ Len(call.attempts) = 4
    /\ ~call.attempts[1][2]

(***************************************************************************)
(* Properties of the PDF service (SpecPdf).                                *)
(***************************************************************************)
\* the listed image paths that exist under a supported extension, in list order
SurvivingImages ==
    SelectSeq(call.a.image_paths,
              LAMBDA path : /\ path \in DOMAIN fs.files
                            /\ Lower(path[3]) \in
                                  {<<".", "j", "p", "g">>, <<".", "j", "p", "e", "g">>,
                                   <<".", "p", "n", "g">>, <<".", "g", "i", "f">>,
                                   <<".", "b", "m", "p">>, <<".", "t", "i", "f", "f">>})

\* the page leaves room for an image inside the margins
PageHasRoom == call.a.page_size[2] - 2 * call.a.margin # 0

\* C6: when at least one listed path survives and every survivor decodes (and
\* the page has room), images_to_pdf saves a PDF; a PDF it saves has exactly
\* one page per surviving path, duplicates included, in list order, and none
\* for a path that is missing or has an unsupported extension.
C6_OnePagePerSurvivor ==
    (call.pc = "done" /\ call.op = "images_to_pdf") =>
        /\ ( /\ SurvivingImages # <<>>
             /\ \A i \in DOMAIN SurvivingImages : Decodes(fs.files[SurvivingImages[i]])
             /\ PageHasRoom )
              => call.outcome.kind = "return" /\ call.outcome.value = "True"
        /\ call.outcome.kind = "return" =>
              /\ call.a.output_path \in DOMAIN fs.files
              /\ fs.files[call.a.output_path].kind = "pdf"
              /\ Len(fs.files[call.a.output_path].pages) = Len(SurvivingImages)
              /\ \A i \in DOMAIN SurvivingImages :
                    fs.files[call.a.output_path].pages[i].image = SurvivingImages[i]

\* C6, its case: three paths listed, one skipped, two different images drawn
C6_SkippedAndDrawn ==
    /\ call.pc = "done" /\ call.op = "images_to_pdf"
    /\ call.outcome.kind = "return"
    /\ Len(call.a.image_paths) = 3
    /\ Len(fs.files[call.a.output_path].pages) = 2
    /\ fs.files[call.a.output_path].pages[1].image = ImageB
    /\ fs.files[call.a.output_path].pages[2].image = ImageA

\* C7: when a surviving image fails to decode or to draw, wherever it stands in
\* the list, images_to_pdf raises its image-processing error and leaves the
\* file system, the output path included, as it was.
C7_NoPartialOutput ==
    [][(call.pc = "call" /\ call.op = "images_to_pdf" /\ call'.pc = "done") =>
          ((\E i \in DOMAIN SurvivingImages :
                ~Decodes(fs.files[SurvivingImages[i]]) \/ ~PageHasRoom)
             => /\ call'.outcome.kind = "raise"
                /\ call'.outcome.value = "PDFConverterError"
                /\ call'.outcome.data = "Failed to process image"
                /\ fs' = fs)]_vars

\* C7, its case: the first image was drawn, a later one failed, and the file
\* that was at the output path is still there
C7_FailedAfterAPage ==
    /\ call.pc = "done" /\ call.op = "images_to_pdf"
    /\ call.outcome.kind = "raise"
    /\ call.outcome.data = "Failed to process image"
    /\ Len(SurvivingImages) >= 2
    /\ Decodes(fs.files[SurvivingImages[1]])
    /\ PageHasRoom
    /\ call.a.output_path \in DOMAIN fs.files
    /\ fs.files[call.a.output_path] = Corrupt

\* C8: when no listed path survives the validation, images_to_pdf raises its
\* no-valid-input error and writes nothing.
C8_NoValidInput ==
    [][(call.pc = "call" /\ call.op = "images_to_pdf" /\ call'.pc = "done") =>
          (SurvivingImages = <<>>
             => /\ call'.outcome.kind = "raise"
                /\ call'.outcome.value = "PDFConverterError"
                /\ call'.outcome.data = IF call.a.image_paths = <<>>
                                        THEN "No image paths provided"
                                        ELSE "No valid images found to convert"
                /\ fs' = fs
                /\ ~( /\ call.a.output_path \in DOMAIN fs'.files
                      /\ fs'.files[call.a.output_path].kind = "pdf" ))]_vars

\* C8, its case: paths were listed, none survived, and there is no output
C8_NoneSurvived ==
    /\ call.pc = "done" /\ call.op = "images_to_pdf"
    /\ Len(call.a.image_paths) >= 2
    /\ call.outcome.kind = "raise"
    /\ call.outcome.data = "No valid images found to convert"
    /\ call.a.output_path \notin DOMAIN fs.files

\* the page numbers asked for, and those of them that lie in the document
SplitRequested ==
    IF call.a.pages = None
    THEN [p \in 1..Len(fs.files[call.a.input_path].pages) |-> p]
    ELSE call.a.pages[1]

SplitInRange ==
    SelectSeq(SplitRequested,
              LAMBDA p : p \in 1..Len(fs.files[call.a.input_path].pages))

\* page_<p zero-padded to 4 digits>.pdf in the output directory, for p below 10
SplitPagePath(p) ==
    <<call.a.output_dir,
      <<"p", "a", "g", "e", "_", "0", "0", "0",
        <<"1", "2", "3", "4", "5", "6", "7", "8", "9">>[p]>>,
      <<".", "p", "d", "f">>>>

\* the PDF files of the output directory
SplitFiles ==
    {path \in DOMAIN fs.files : path[1] = call.a.output_dir /\ fs.files[path].kind = "pdf"}

\* split_pdf has split a readable document
SplitDone ==
    /\ call.pc = "done" /\ call.op = "split_pdf"
    /\ call.a.input_path \in DOMAIN fs.files
    /\ fs.files[call.a.input_path].kind = "pdf"

\* what C9 says of the files: each in-range entry p has its file page_000p.pdf
\* holding page p alone, nothing else is there, no entry in range is the
\* no-valid-pages error, and no page list gives one file per page
SplitExtracts ==
    SplitDone =>
        IF SplitInRange = <<>>
        THEN /\ call.outcome.kind = "raise"
             /\ call.outcome.data = "No valid pages specified"
             /\ SplitFiles = {}
        ELSE /\ call.outcome.kind = "return"
             /\ SplitFiles = {SplitPagePath(SplitInRange[i]) : i \in DOMAIN SplitInRange}
             /\ \A i \in DOMAIN SplitInRange :
                   fs.files[SplitPagePath(SplitInRange[i])].pages =
                      <<fs.files[call.a.input_path].pages[SplitInRange[i]]>>
             /\ call.a.pages = None =>
                   Cardinality(SplitFiles) = Len(fs.files[call.a.input_path].pages)

\* C9, as stated: split_pdf extracts each in-range entry into its own file
\* page_<p>.pdf holding page p, drops the others, raises when none is in range,
\* and returns one path per file created, in request order.
C9_OnePathPerFile ==
    /\ SplitExtracts
    /\ (SplitDone /\ call.outcome.kind = "return") =>
          /\ Len(call.outcome.data) = Cardinality(SplitFiles)
          /\ \A i \in DOMAIN call.outcome.data :
                call.outcome.data[i] = SplitPagePath(SplitInRange[i])

\* C9, amended: split_pdf extracts each in-range entry into its own file
\* page_<p>.pdf holding page p, drops the others, raises when none is in range,
\* and returns one path per in-range entry, in request order; the files created
\* are as many as the distinct in-range entries.
C9_OnePathPerEntry ==
    /\ SplitExtracts
    /\ (SplitDone /\ call.outcome.kind = "return") =>
          /\ Len(call.outcome.data) = Len(SplitInRange)
          /\ \A i \in DOMAIN call.outcome.data :
                call.outcome.data[i] = SplitPagePath(SplitInRange[i])
          /\ Cardinality(SplitFiles) =
                Cardinality({SplitInRange[i] : i \in DOMAIN SplitInRange})

\* C9, its case: pages 2, 4 and 99 of a document of five pages give two files
C9_TwoOfFive ==
    /\ SplitDone
    /\ Len(fs.files[call.a.input_path].pages) = 5
    /\ call.a.pages = <<<<2, 4, 99>>>>
    /\ call.outcome.kind = "return"
    /\ Len(call.outcome.data) = 2
    /\ Cardinality(SplitFiles) = 2

\* the pages of the listed documents that exist, in list order
RECURSIVE ExistingPages(_)
ExistingPages(paths) ==
    IF paths = <<>> THEN <<>>
    ELSE (IF Head(paths) \in DOMAIN fs.files THEN fs.files[Head(paths)].pages ELSE <<>>)
            \o ExistingPages(Tail(paths))

\* merge_pdfs has written the pages of the existing listed documents, in order
MergeWritten ==
    /\ call.outcome.kind = "return"
    /\ call.outcome.value = "True"
    /\ call.a.output_path \in DOMAIN fs.files
    /\ fs.files[call.a.output_path].kind = "pdf"
    /\ fs.files[call.a.output_path].pages = ExistingPages(call.a.pdf_paths)

\* C10, as stated: on a non-empty list merge_pdfs writes the pages of the
\* listed paths that exist, concatenated in list order, and returns True, also
\* when no listed path exists.
C10_MergeInListOrder ==
    (call.pc = "done" /\ call.op = "merge_pdfs" /\ call.a.pdf_paths # <<>>) => MergeWritten

\* C10, amended: on a non-empty list in which every path that exists is a
\* readable PDF, merge_pdfs writes the pages of the listed paths that exist,
\* concatenated in list order, and returns True, also when no listed path exists.
C10_MergeReadableInListOrder ==
    ( /\ call.pc = "done" /\ call.op = "merge_pdfs" /\ call.a.pdf_paths # <<>>
      /\ \A i \in DOMAIN call.a.pdf_paths :
            call.a.pdf_paths[i] \in DOMAIN fs.files =>
               fs.files[call.a.pdf_paths[i]].kind = "pdf" )
        => MergeWritten

\* C10, its case: three paths listed, the second missing, the pages of the
\* first before those of the third
C10_MergedAroundMissing ==
    /\ call.pc = "done" /\ call.op = "merge_pdfs"
    /\ call.outcome.kind = "return"
    /\ call.a.pdf_paths = <<PdfZ, PdfY, PdfX>>
    /\ PdfY \notin DOMAIN fs.files
    /\ fs.files[call.a.output_path].pages = <<<<"z", 1>>, <<"x", 1>>, <<"x", 2>>>>

(***************************************************************************)
(* Exact arithmetic on the values of floats, for statements about them: a  *)
(* number is s * n * 2^e, s its sign (0 for zero) and n a sequence of      *)
(* digits of 15 bits, the lowest first.                                    *)
(***************************************************************************)
Big == 2 ^ 15

BigDigit(a, i) == IF i \in DOMAIN a THEN a[i] ELSE 0

BigLen(a, b) == IF Len(a) > Len(b) THEN Len(a) ELSE Len(b)

\* a * k + carry from digit i on, 0 <= k <= Big
RECURSIVE BigMulFrom(_, _, _, _)
BigMulFrom(a, k, i, carry) ==
    IF i > Len(a) THEN (IF carry = 0 THEN <<>> ELSE <<carry>>)
    ELSE <<(a[i] * k + carry) % Big>> \o BigMulFrom(a, k, i + 1, (a[i] * k + carry) \div Big)

\* a * 2^bits
BigShift(a, bits) ==
    [i \in 1..(bits \div 15) |-> 0] \o BigMulFrom(a, 2 ^ (bits % 15), 1, 0)

\* a + b from digit i on
RECURSIVE BigAddFrom(_, _, _, _)
BigAddFrom(a, b, i, carry) ==
    IF i > BigLen(a, b) THEN (IF carry = 0 THEN <<>> ELSE <<carry>>)
    ELSE <<(BigDigit(a, i) + BigDigit(b, i) + carry) % Big>>
         \o BigAddFrom(a, b, i + 1, (BigDigit(a, i) + BigDigit(b, i) + carry) \div Big)

\* a - b from digit i on, for a >= b
RECURSIVE BigSubFrom(_, _, _, _)
BigSubFrom(a, b, i, borrow) ==
    IF i > BigLen(a, b) THEN <<>>
    ELSE <<(BigDigit(a, i) - BigDigit(b, i) - borrow) % Big>>
         \o BigSubFrom(a, b, i + 1,
                        IF BigDigit(a, i) - BigDigit(b, i) - borrow < 0 THEN 1 ELSE 0)

\* the sign of a - b, from digit i down
RECURSIVE BigCmpFrom(_, _, _)
BigCmpFrom(a, b, i) ==
    IF i = 0 THEN 0
    ELSE IF BigDigit(a, i) # BigDigit(b, i) THEN Sign(BigDigit(a, i) - BigDigit(b, i))
    ELSE BigCmpFrom(a, b, i - 1)

ExactInt(k) ==
    [s |-> Sign(k), n |-> <<(k * Sign(k)) % Big, (k * Sign(k)) \div Big>>, e |-> 0]

\* the value of the float m * 2^e with the sign s
ExactSigned(s, x) ==
    [s |-> s,
     n |-> <<x.m[3] % Big,
             (x.m[3] \div Big) + (x.m[2] % 2 ^ 12) * 2 ^ 3,
             (x.m[2] \div 2 ^ 12) + (x.m[1] % 2 ^ 9) * 2 ^ 6,
             x.m[1] \div 2 ^ 9>>,
     e |-> x.e]

ExactFloat(x) == ExactSigned(1, x)

\* the digits of a on the scale of 2^e, e <= a.e
ExactDigits(a, e) == BigShift(a.n, a.e - e)

ExactSumOn(a, b, e, cmp) ==
    IF a.s = 0 THEN b
    ELSE IF b.s = 0 THEN a
    ELSE IF a.s = b.s
    THEN [s |-> a.s, n |-> BigAddFrom(ExactDigits(a, e), ExactDigits(b, e), 1, 0), e |-> e]
    ELSE IF cmp = 0 THEN [s |-> 0, n |-> <<>>, e |-> 0]
    ELSE IF cmp > 0
    THEN [s |-> a.s, n |-> BigSubFrom(ExactDigits(a, e), ExactDigits(b, e), 1, 0), e |-> e]
    ELSE [s |-> b.s, n |-> BigSubFrom(ExactDigits(b, e), ExactDigits(a, e), 1, 0), e |-> e]

ExactMin(d, e) == IF d < e THEN d ELSE e

\* a + b
ExactSum(a, b) ==
    ExactSumOn(a, b, ExactMin(a.e, b.e),
               BigCmpFrom(ExactDigits(a, ExactMin(a.e, b.e)), ExactDigits(b, ExactMin(a.e, b.e)),
                          BigLen(ExactDigits(a, ExactMin(a.e, b.e)),
                                 ExactDigits(b, ExactMin(a.e, b.e)))))

\* a * k for an int 0 < k <= Big
ExactTimes(a, k) == [a EXCEPT !.n = BigMulFrom(a.n, k, 1, 0)]

\* the sign of a - b
ExactCmp(a, b) == ExactSum(a, [b EXCEPT !.s = 0 - b.s]).s

(***************************************************************************)
(* C11                                                                     *)
(***************************************************************************)
\* the rectangle drawn preserves the aspect ratio of the image of size
LayoutKeepsRatio(page, size) ==
    ExactCmp(ExactTimes(ExactFloat(page.width), size[2]),
             ExactTimes(ExactFloat(page.height), size[1])) = 0

\* the rectangle starts at x and is wide `width`: it lies between the margins
\* of a page of the given extent
LayoutInside(x, width, extent, margin) ==
    /\ ExactCmp(x, ExactInt(margin)) >= 0
    /\ ExactCmp(ExactSum(x, width), ExactInt(extent - margin)) <= 0

\* the gap before the rectangle is the gap after it
LayoutCentred(x, width, extent) ==
    ExactCmp(ExactSum(ExactTimes(x, 2), width), ExactInt(extent)) = 0

\* the dimension that binds the scale spans all that the margins leave
LayoutSpans(page, size, available) ==
    /\ available[1] * size[2] <= available[2] * size[1]
          => ExactCmp(ExactFloat(page.width), ExactInt(available[1])) = 0
    /\ available[1] * size[2] >= available[2] * size[1]
          => ExactCmp(ExactFloat(page.height), ExactInt(available[2])) = 0

LayoutHolds(page, size, page_size, margin) ==
    /\ LayoutKeepsRatio(page, size)
    /\ LayoutInside(ExactSigned(page.x.s, page.x), ExactFloat(page.width), page_size[1], margin)
    /\ LayoutInside(ExactSigned(page.y.s, page.y), ExactFloat(page.height), page_size[2], margin)
    /\ LayoutSpans(page, size, <<page_size[1] - 2 * margin, page_size[2] - 2 * margin>>)
    /\ LayoutCentred(ExactSigned(page.x.s, page.x), ExactFloat(page.width), page_size[1])
    /\ LayoutCentred(ExactSigned(page.y.s, page.y), ExactFloat(page.height), page_size[2])

\* C11: when 2 * margin is smaller than both page dimensions, every rectangle
\* images_to_pdf draws has the aspect ratio of its image, lies inside the page
\* inset by margin on all four sides, spans the available extent in the
\* binding dimension and is centred on the page (all taken exactly).
C11_FittedAndCentred ==
    ( /\ call.pc = "done" /\ call.op = "images_to_pdf"
      /\ call.outcome.kind = "return"
      /\ 2 * call.a.margin < call.a.page_size[1]
      /\ 2 * call.a.margin < call.a.page_size[2] )
    => \A i \in DOMAIN fs.files[call.a.output_path].pages :
          LayoutHolds(fs.files[call.a.output_path].pages[i],
                      fs.files[fs.files[call.a.output_path].pages[i].image].size,
                      call.a.page_size, call.a.margin)

(***************************************************************************)
(* C12                                                                     *)
(***************************************************************************)
\* the lines drawn on pages k.. of a document, in order
RECURSIVE TextDrawn(_, _)
TextDrawn(pages, k) ==
    IF k > Len(pages) THEN <<>> ELSE pages[k].draws \o TextDrawn(pages, k + 1)

\* the texts of draws[i..] put together again with line ends between them
RECURSIVE TextJoined(_, _)
TextJoined(draws, i) ==
    IF i > Len(draws) THEN <<>>
    ELSE IF i = Len(draws) THEN draws[i].text
    ELSE draws[i].text \o <<"\n">> \o TextJoined(draws, i + 1)

\* the layout of one page: the left margin, the first line at the top margin
\* and the lines line_height apart
TextPageLaidOut(draws, page_height, line_height) ==
    /\ \A j \in DOMAIN draws : draws[j].x = 40
    /\ draws # <<>> => draws[1].y = page_height - 40
    /\ \A j \in 1..(Len(draws) - 1) : draws[j].y - draws[j + 1].y = line_height

\* a page is left exactly when the next line would stand below the bottom
\* margin: the lines after the first of a page did not, and the line that
\* opens the next page would have
TextPagesBroken(pages, page_height, line_height) ==
    \A k \in DOMAIN pages :
        /\ \A j \in 2..Len(pages[k].draws) : pages[k].draws[j].y >= 40
        /\ k < Len(pages) =>
              (IF pages[k].draws = <<>> THEN page_height - 40
               ELSE pages[k].draws[Len(pages[k].draws)].y - line_height) < 40

\* the document text_to_pdf has written for the text
TextLaidOut(pages, text_content, page_height, line_height) ==
    /\ TextDrawn(pages, 1) # <<>>
    /\ TextJoined(TextDrawn(pages, 1), 1) = text_content
    /\ \A k \in DOMAIN pages : TextPageLaidOut(pages[k].draws, page_height, line_height)
    /\ TextPagesBroken(pages, page_height, line_height)

\* no line of the document stands below the bottom margin
TextAboveMargin(pages) ==
    \A k \in DOMAIN pages : \A j \in DOMAIN pages[k].draws : pages[k].draws[j].y >= 40

\* on empty text: the empty-content error, and nothing written
TextEmptyRefused ==
    call.a.text_content = <<>> =>
        /\ call'.outcome = PDFConverterError("No text content provided")
        /\ fs' = fs

TextCallDone == call.pc = "call" /\ call.op = "text_to_pdf" /\ call'.pc = "done"

TextWritten ==
    /\ call.a.output_path \in DOMAIN fs'.files
    /\ fs'.files[call.a.output_path].kind = "pdf"
    /\ TextLaidOut(fs'.files[call.a.output_path].pages, call.a.text_content,
                   call.a.page_size[2], call.a.font_size + 4)

\* C12 as stated: a call of text_to_pdf that returns has drawn every line of
\* the text once, in order, at x = 40, the first line of each page at
\* page_height - 40 and the lines font_size + 4 apart, has left a page exactly
\* when the next line would stand below the bottom margin, and has drawn no
\* line at y < 40; on empty text it raises the empty-content error and
\* writes nothing.
C12_LinesLaidOut ==
    [][TextCallDone =>
          /\ TextEmptyRefused
          /\ call'.outcome.kind = "return" =>
                /\ TextWritten
                /\ TextAboveMargin(fs'.files[call.a.output_path].pages)]_vars

\* C12 as amended: the same, with no line at y < 40 on a page at least 80 high.
C12_LinesLaidOutOnHighPage ==
    [][TextCallDone =>
          /\ TextEmptyRefused
          /\ call'.outcome.kind = "return" =>
                /\ TextWritten
                /\ call.a.page_size[2] >= 80
                      => TextAboveMargin(fs'.files[call.a.output_path].pages)]_vars

\* C12, its case: four lines on a page 112 high, the third on the bottom
\* margin and the fourth on a second page
C12_SecondPage ==
    /\ call.pc = "done" /\ call.op = "text_to_pdf" /\ call.outcome.kind = "return"
    /\ Len(fs.files[call.a.output_path].pages) = 2
    /\ Len(fs.files[call.a.output_path].pages[1].draws) = 3
    /\ fs.files[call.a.output_path].pages[1].draws[3].y = 40
    /\ fs.files[call.a.output_path].pages[2].draws[1].y = 72

(***************************************************************************)
(* C13                                                                     *)
(***************************************************************************)
\* the validation cases that are documented to raise: a format token outside
\* the supported set, and an input file or directory that does not exist
DocumentedRaise ==
    \/ /\ call.op \in {"convert_image", "convert_image_bytes", "batch_convert"}
       /\ Upper(call.a.output_format) \notin SUPPORTED_FORMATS
    \/ call.op \in {"convert_image", "split_pdf"} /\ ~PathExists(fs, call.a.input_path)
    \/ call.op = "batch_convert" /\ ~DirExists(fs, call.a.input_directory)

\* C13: a call of a service raises only in the documented validation cases
\* (unsupported format, input file or directory not found); a failure inside
\* a library call makes it return False or None and is never raised.
C13_LibraryFailuresReturned ==
    [][(call.pc = "call" /\ call'.pc = "done" /\ call'.outcome.kind = "raise")
          => DocumentedRaise]_vars

(***************************************************************************)
(* C14                                                                     *)
(***************************************************************************)
\* the call of resize or convert_format is to write a JPEG: by its token in
\* any letter case, or without a token by the suffix of the source
TargetsJpeg ==
    IF call.a.format = None
    THEN Lower(call.a.image_path[3]) \in {<<".", "j", "p", "g">>, <<".", "j", "p", "e", "g">>}
    ELSE Upper(IF call.op = "resize" THEN call.a.format[1] ELSE call.a.format) \in {JPEG, JPG}

\* what convert_image hands to its encoder for the same source and target
ConverterWouldSave ==
    ConverterFlatten(Opened(fs.files[call.a.image_path]), IF TargetsJpeg THEN JPEG ELSE PNG)

\* C14: whatever the mode of the source and the format token, the image
\* resize and convert_format hand to the encoder is flattened onto white
\* exactly when convert_image would flatten it for the same target format,
\* and with the same alpha mask (the alpha band for RGBA and LA, none for P).
C14_FlattensAsConverter ==
    [][( /\ call.pc = "call" /\ call.op \in {"resize", "convert_format"}
         /\ call'.pc = "done" /\ call'.saves # <<>> )
          => /\ call'.saves[1].img.flattened = ConverterWouldSave.flattened
             /\ call'.saves[1].img.background = ConverterWouldSave.background
             /\ call'.saves[1].img.mask = ConverterWouldSave.mask]_vars

(***************************************************************************)
(* C15                                                                     *)
(***************************************************************************)
\* the format token of a call of resize, convert_format or convert_image_format
FormatToken == IF call.op = "resize" THEN call.a.format[1] ELSE call.a.format

\* the same call with its token in upper case
UpperCaseCall ==
    CASE call.op = "resize" ->
           resize(call.a.self.quality, fs, call.a.image_path, call.a.output_path, call.a.size,
                  call.a.maintain_aspect_ratio, Some(Upper(FormatToken)), call.a.quality)
      [] call.op = "convert_format" ->
           convert_format(call.a.self.quality, fs, call.a.image_path, call.a.output_path,
                          Upper(FormatToken), call.a.quality)
      [] call.op = "convert_image_format" ->
           convert_image_format(fs, call.a.image_path, call.a.output_path, Upper(FormatToken),
                                call.a.quality)

\* the parameters the encoder is given besides the format
EncoderParameters(saves) ==
    IF saves = <<>> THEN <<>>
    ELSE [k \in DOMAIN saves[1].kwargs \ {"format"} |-> saves[1].kwargs[k]]

\* C15: in resize with a format given, convert_format and
\* convert_image_format, a token that is not in the supported set once in
\* upper case makes the operation fail (return False) before anything is
\* resized or handed to the encoder, and a supported token selects the same
\* encoder parameters (quality, optimize) in any letter case.
C15_TokenChecked ==
    [][( /\ call.pc = "call" /\ call'.pc = "done"
         /\ call.op \in {"resize", "convert_format", "convert_image_format"}
         /\ call.op = "resize" => call.a.format \notin {None, Some(<<>>)} )
          => IF Upper(FormatToken) \notin SUPPORTED_FORMATS
             THEN call'.outcome = Return("False") /\ call'.saves = <<>>
             ELSE EncoderParameters(call'.saves) = EncoderParameters(UpperCaseCall.saves)]_vars

(***************************************************************************)
(* C16                                                                     *)
(***************************************************************************)
\* C16: convert_image with a supported format and an input path that does
\* not exist raises the source-not-found error (FileNotFoundError) and leaves
\* the file system as it was: no output directory made, no output written;
\* convert_image_bytes never ends with that error.
C16_SourceNotFoundRaised ==
    [][(call.pc = "call" /\ call'.pc = "done") =>
          /\ ( /\ call.op = "convert_image"
               /\ Upper(call.a.output_format) \in SUPPORTED_FORMATS
               /\ ~PathExists(fs, call.a.input_path) )
                => call'.outcome = Raise("FileNotFoundError") /\ fs' = fs
          /\ call.op = "convert_image_bytes"
                => ~(call'.outcome.kind = "raise" /\ call'.outcome.value = "FileNotFoundError")]_vars

\* C16, its case: convert_image has raised for a missing source with a format
\* given in lower case, and the output directory, which was not there, still is not
C16_MissingSourceNoDirectory ==
    /\ call.pc = "done" /\ call.op = "convert_image"
    /\ call.a.output_format = <<"p", "n", "g">>
    /\ ~PathExists(fs, call.a.input_path)
    /\ call.outcome = Raise("FileNotFoundError")
    /\ ~DirExists(fs, call.a.output_path[1])


(***************************************************************************)
(* C17                                                                     *)
(***************************************************************************)
\* the output paths a call has written: the output path of a convert_image that
\* returned True, the output files of the conversions batch_convert counted as
\* successful
WrittenPaths(attempts, outcome) ==
    IF call.op = "convert_image"
    THEN IF outcome = Return("True") THEN {call.a.output_path} ELSE {}
    ELSE {BatchOutputFile(call.a.output_directory, attempts[i][1],
                          Upper(call.a.output_format)) :
             i \in {j \in DOMAIN attempts : attempts[j][2]}}

RanTwice == call.pc = "done" /\ call.first # None

\* the second call wrote the paths the first one wrote, ended as the first one
\* ended and left the file system as the first one had left it
SameAgain ==
    /\ WrittenPaths(call.attempts, call.outcome)
          = WrittenPaths(call.first[1].attempts, call.first[1].outcome)
    /\ call.outcome = call.first[1].outcome
    /\ fs = call.first[1].fs

ConvertedBytes ==
    /\ call.outcome.value = "bytes"
    /\ call.outcome.data.kind = "image"
    /\ call.outcome.data.format = Upper(call.a.target_format)

\* the response is {"error": message}
ErrorPayload == call.outcome.value = "json" /\ DOMAIN call.outcome.data = {"error"}

\* C18: a request to POST /api/image-convert ends with the converted image bytes
\* in the requested format when it is accepted and with an error payload
\* {error: message} when it fails, never with neither.
C18_BytesOrError ==
    (call.op = "image_convert" /\ call.pc = "done") => (ConvertedBytes \/ ErrorPayload)


(***************************************************************************)
(* C19, C20                                                                *)
(***************************************************************************)
Exceeds(size, box) == size[1] > box[1] \/ size[2] > box[2]

Within(size, box) == size[1] <= box[1] /\ size[2] <= box[2]

\* the size returned fits the box whenever the original exceeded it
FitsBox == (rz.pc = "done" /\ Exceeds(rz.orig, rz.box)) => Within(rz.dims, rz.box)

\* the size returned exceeds the original in neither dimension
NeverUpscales == rz.pc = "done" => Within(rz.dims, rz.orig)

\* the function applied to its result with the same box returns the result
FixedPoint == rz.pc \in {"twice", "raised"} => (rz.pc = "twice" /\ rz.dims = rz.orig)

\* C19: for positive original sizes and boxes the size returned by
\* calculate_aspect_ratio_dimensions fits inside the box whenever the original
\* exceeded it, never exceeds the original in either dimension, and is a fixed
\* point: the function applied again to it with the same box returns it
\* unchanged.
C19_FitsAndFixedPoint == FitsBox /\ NeverUpscales /\ FixedPoint

\* C20: for original sizes and boxes of integers >= 1 both dimensions returned
\* by calculate_aspect_ratio_dimensions are >= 1.
C20_DimensionsPositive == rz.pc = "done" => (rz.dims[1] >= 1 /\ rz.dims[2] >= 1)


(***************************************************************************)
(* C21                                                                     *)
(***************************************************************************)
\* the entries of a directory
EntriesOf(f, directory) == {path \in DOMAIN f.files : path[1] = directory}

\* the output file batch_convert names for the i-th file it tried
OutputOfAttempt(attempts, i) ==
    BatchOutputFile(call.a.output_directory, attempts[i][1], Upper(call.a.output_format))

\* C21: in batch_convert no two distinct input files that converted are written
\* to the same output path, and a batch returning (s, f) into an output
\* directory that was empty leaves exactly s files in it.
C21_OwnOutputFile ==
    [][(call.pc = "call" /\ call.op = "batch_convert" /\ call'.pc = "done"
          /\ call'.outcome.kind = "return") =>
          /\ \A i, j \in DOMAIN call'.attempts :
                (i # j /\ call'.attempts[i][2] /\ call'.attempts[j][2]) =>
                   OutputOfAttempt(call'.attempts, i) # OutputOfAttempt(call'.attempts, j)
          /\ EntriesOf(fs, call.a.output_directory) = {} =>
                Cardinality(EntriesOf(fs', call.a.output_directory))
                   = call'.outcome.data[1]]_vars

=============================================================================
